---- MODULE Spec2Model ----
(***************************************************************************)
(* A model of the real-time processing core of dropseed: the shared audio  *)
(* buffers with their constant hint, the fan-in sum tasks, and the         *)
(* per-plugin processing state machine PluginHostProcessor::process with   *)
(* its bypass declick, run by the audio context while the control context  *)
(* writes the cross-thread shared state.                                   *)
(*                                                                         *)
(* Samples are fixed-point integers.  In the processor the integer x       *)
(* stands for the sample x / DeclickFrames, so that the mix                *)
(* out * w + in * (1 - w), with w a multiple of 1 / DeclickFrames, is an   *)
(* exact integer; the rounding of f32 arithmetic is not modelled.          *)
(***************************************************************************)
EXTENDS Integers, Sequences, FiniteSets, TLC

(***************************************************************************)
(* Bounds of the model.                                                    *)
(***************************************************************************)
\* N: the bypass_declick_frames argument of PluginHostProcessor::new.
DeclickFrames == 3
\* The configured maximum frame count of a cycle: the length of every audio buffer.
MaxFrames == 2
\* Schedule versions run over 0..MaxVersion.
MaxVersion == 1
\* The control context's clock runs over 0..MaxTime.
MaxTime == 4
\* The period of the main idle timer and of the garbage collection timer, in
\* ticks of the clock.
IdlePeriod == 1
CollectPeriod == 2
\* The audio graph holds at most MaxPlugins plugin instances.
MaxPlugins == 1
\* The engine is activated at most MaxActivations times.
MaxActivations == 2
\* Compiling the audio graph fails at most MaxCrashes times.
MaxCrashes == 2
\* A sum task has at most MaxInputs inputs.
MaxInputs == 3
\* An event buffer holds at most MaxEvents events.
MaxEvents == 2

Min(a, b) == IF a <= b THEN a ELSE b

\* The fixed-point integer that stands for the sample 1.0.
Unit == DeclickFrames

VARIABLES
    \* PluginHostProcessor's fields
    processing_state,            \* ProcessingState
    schedule_version,            \* the schedule version the processor expects
    bypassed,                    \* the bypass flag the processor saw last
    bypass_declick,              \* the mix weight w, in units of 1 / DeclickFrames
    bypass_declick_frames_left,  \* the remaining-ramp counter
    \* channel.shared_state, shared with the control context
    active_state,                \* PluginActiveState
    shared_bypassed,             \* shared_state.bypassed()
    process_requested,           \* shared_state.process_requested()
    \* the plugin behind Box<dyn PluginProcessThread>
    plugin_processing,           \* TRUE between start_processing() = Ok and stop_processing()
    \* ProcBuffers
    audio_in,                    \* sequence of ports, a port a sequence of channels
    audio_out,
    main_through,                \* _main_audio_through_when_bypassed()
    \* PluginEventIoBuffers
    event_buffers_out,           \* the events in the output event and note buffers
    \* the audio context
    pc,                          \* "idle"; "running" between the load of the active state and the rest; "dropping" in Drop before its store
    state,                       \* the local `state` of process(): the active state it loaded
    cycle_version,               \* the version of the schedule the audio context runs
    alive,                       \* FALSE once the processor was dropped
    is_process_thread,           \* thread_ids.is_process_thread() of the thread that runs the processor's code
    panicked,                    \* TRUE once a cycle aborted on a borrow conflict
    \* what the last call of process() was given and did
    proc_info,                   \* [frames, schedule_version]
    has_note_in_event,
    has_param_in_event,
    ret,                         \* "none", "true", "false", "panic"; "dropped" after Drop
    calls,                       \* how often each plugin method was invoked in the cycle
    start_result,                \* what start_processing returned: "Ok", "Err"; "None" if not invoked
    new_status,                  \* the status the plugin's process returned, "None" if not invoked
    pre_out,                     \* audio_out when the bypass stage of the cycle began
    declick_from,                \* bypass_declick when the bypass stage's ramp began
    left_from,                   \* bypass_declick_frames_left when the bypass stage's ramp began
    \* AudioSumTask
    sum_audio_in,                \* AudioSumTask.audio_in: a sequence of buffers
    sum_audio_out,               \* AudioSumTask.audio_out
    sum_frames,                  \* proc_info.frames of the task's call
    sum_pc,                      \* "off", "ready" before AudioSumTask::process, "done" after
    \* NoteSumTask and AutomationSumTask
    note_in,                     \* NoteSumTask.note_in: a sequence of event buffers
    note_out,                    \* NoteSumTask.note_out
    automation_input,            \* AutomationSumTask.input
    automation_output,           \* AutomationSumTask.output
    event_pc,                    \* "off", "note" or "automation" before process, "done" after
    \* a port of SharedBuffer<f32> channels and the callers of its methods
    buf_port,                    \* the channels of an AudioPortBuffer / AudioPortBufferMut
    buf_op,                      \* the last method called: its name, arguments and result
    \* DSEngineMainThread
    activated_state,             \* "None" or "Some"
    plugins,                     \* the live plugin instances of activated_state.audio_graph
    graphs_built,                \* how often AudioGraph::new was called
    threads_spawned,             \* how many process threads were spawned
    threads_joined,              \* how many process threads were stopped and joined
    buffer_refs,                 \* who holds handles of the schedule's shared buffers
    garbage,                     \* allocations without a handle that the collector has not freed
    timer_wheel,                 \* EngineTimerWheel: the set of its entries [key, due, period]
    crash_msg,                   \* "None" or "Some"
    now,                         \* the instant of the control context's clock
    \* what the last call on the engine was and did
    eng_op,                      \* [name, ret]
    events_out,                  \* the engine events the last on_timer returned
    elapsed,                     \* the keys advance handed to the last on_timer, in order
    wheel_advanced,              \* the timer wheel as advance left it in the last on_timer
    crashes,                     \* how often compiling the audio graph failed
    reported                     \* how many EngineCrashed events on_timer returned

procVars == <<event_buffers_out, processing_state, schedule_version, bypassed, bypass_declick,
              bypass_declick_frames_left, active_state, shared_bypassed,
              process_requested, plugin_processing, audio_in, audio_out,
              main_through, pc, state, cycle_version, alive, is_process_thread,
              panicked, proc_info, has_note_in_event, has_param_in_event, ret, calls,
              start_result, new_status, pre_out, declick_from, left_from>>

sumVars == <<sum_audio_in, sum_audio_out, sum_frames, sum_pc>>

eventVars == <<note_in, note_out, automation_input, automation_output, event_pc>>

bufVars == <<buf_port, buf_op>>

engVars == <<activated_state, plugins, graphs_built, threads_spawned, threads_joined,
             buffer_refs, garbage, timer_wheel, crash_msg, now, eng_op, events_out,
             elapsed, wheel_advanced, crashes, reported>>

vars == <<procVars, sumVars, eventVars, bufVars, engVars>>

(***************************************************************************)
(* ProcessingState and ProcessStatus                                       *)
(***************************************************************************)
GoodStatuses == {"Continue", "ContinueIfNotQuiet", "Tail"}
Statuses == GoodStatuses \cup {"Sleep", "Error"}

WaitingForStart == [tag |-> "WaitingForStart", status |-> "None"]
Started(s) == [tag |-> "Started", status |-> s]
Stopped == [tag |-> "Stopped", status |-> "None"]
Errored == [tag |-> "Errored", status |-> "None"]

IsStarted(ps) == ps.tag = "Started"

ProcessingStates == {WaitingForStart, Stopped, Errored} \cup {Started(s) : s \in GoodStatuses}

ActiveStates == {"Inactive", "Active", "WaitingToDrop", "DroppedAndReadyToDeactivate"}

(***************************************************************************)
(* SharedBuffer<f32> and the port views                                    *)
(***************************************************************************)
Buffer(data, is_constant) == [data |-> data, is_constant |-> is_constant]

\* SharedBuffer::new: max_frames default samples, the constant flag unset.
NewBuffer == Buffer([i \in 1..MaxFrames |-> 0], FALSE)

\* A clear that stops one frame short.
ClearShort(buf, frames) ==
    Buffer([i \in 1..Len(buf.data) |-> IF i < frames THEN 0 ELSE buf.data[i]], TRUE)

\* A clear of the whole buffer, whatever the frame count.
ClearWhole(buf, frames) == Buffer([i \in 1..Len(buf.data) |-> 0], TRUE)

\* SharedBuffer::clear
Clear(buf, frames) ==
    LET n == Min(frames, Len(buf.data))
    IN  Buffer([i \in 1..Len(buf.data) |-> IF i <= n THEN 0 ELSE buf.data[i]], TRUE)

\* The hint taken from the flag alone.
HasSilentHintFlagOnly(buf) == buf.is_constant

\* SharedBuffer::has_silent_hint
HasSilentHint(buf) == buf.is_constant /\ buf.data[1] = 0

\* AudioPortBuffer::has_silent_hint
PortHasSilentHint(port) == \A c \in 1..Len(port) : HasSilentHint(port[c])

\* The hint in place of the scan.
IsSilentByHint(port, frames) == PortHasSilentHint(port)

\* AudioPortBuffer::is_silent: the exact scan
IsSilent(port, frames) ==
    \A c \in 1..Len(port) :
        \A i \in 1..Min(frames, Len(port[c].data)) : port[c].data[i] = 0

\* AudioPortBufferMut::is_silent: the exact scan
IsSilentMut(port, frames) ==
    \A c \in 1..Len(port) :
        \A i \in 1..Min(frames, Len(port[c].data)) : port[c].data[i] = 0

\* AudioPortBufferMut::clear_all
ClearAll(port, frames) == [c \in 1..Len(port) |-> Clear(port[c], frames)]

\* A clear_all_outputs that leaves the outputs as it finds them.
ClearAllOutputsKept(out, frames) == out

\* ProcBuffers::clear_all_outputs
ClearAllOutputs(out, frames) == [k \in 1..Len(out) |-> ClearAll(out[k], frames)]

\* A check of the inputs' silent hints in place of their samples.
AudioInputsSilentByHint(in, frames) == \A k \in 1..Len(in) : PortHasSilentHint(in[k])

\* ProcBuffers::audio_inputs_silent
AudioInputsSilent(in, frames) == \A k \in 1..Len(in) : IsSilent(in[k], frames)

(***************************************************************************)
(* What a cycle is given: the audio inputs the upstream tasks wrote, and   *)
(* what the plugin writes into the outputs.                                *)
(***************************************************************************)
InPatterns == {"zero", "flat", "ramp"}

\* "ramp" starts at zero and is not silent from its second sample on.
InData(p) ==
    [i \in 1..MaxFrames |->
        CASE p = "zero" -> 0
          [] p = "flat" -> Unit
          [] OTHER -> (i - 1) * Unit]

Uniform(data, frames) == \A i \in 1..frames : data[i] = data[1]

\* One input port of one channel.  A producer sets the constant flag only on
\* a buffer that is uniform over the cycle's frames.
AudioInputs(frames) ==
    { << << Buffer(InData(t[1]), t[2]) >> >> :
        t \in {u \in InPatterns \X BOOLEAN : u[2] => Uniform(InData(u[1]), frames)} }

OutPatterns == {"flat", "ramp"}

OutData(p, k, c, i) == IF p = "flat" THEN 2 * Unit ELSE (i + c + k) * Unit

\* The plugin's process writes the cycle's frames of every output channel and
\* leaves the rest of the buffer; it marks a flat channel constant.
PluginWrite(out, p, frames) ==
    [k \in 1..Len(out) |->
        [c \in 1..Len(out[k]) |->
            Buffer([i \in 1..Len(out[k][c].data) |->
                       IF i <= frames THEN OutData(p, k, c, i) ELSE out[k][c].data[i]],
                   p = "flat")]]

\* What an earlier task of the schedule left in a buffer it shared.
StaleBuffer == Buffer([i \in 1..MaxFrames |-> Unit], FALSE)

\* The buffers as process() finds them: the inputs before anything read them,
\* the outputs holding stale samples.
UnreadInputs == << <<NewBuffer>> >>
StaleOutputs == << <<StaleBuffer, StaleBuffer>>, <<StaleBuffer>> >>

(***************************************************************************)
(* PluginHostProcessor::process, the decisions in the order of the code    *)
(***************************************************************************)
NoCalls == [start |-> 0, stop |-> 0, process |-> 0, flush |-> 0]

\* Every state but Active taken as a request to drop.
DropRequestedUnlessActive(s) == s # "Active"

\* A test of the wrong variant of PluginActiveState.
DropRequestedWrongVariant(s) == s = "DroppedAndReadyToDeactivate"

\* "Do we want to deactivate the plugin?"
DropRequested(s) == s = "WaitingToDrop"

\* A test that also holds back the cycle whose version equals the expected one.
StaleScheduleOrEqual(expected, cycle) == expected >= cycle

\* The comparison turned around.
StaleScheduleReversed(expected, cycle) == expected < cycle

\* "Don't process until the expected schedule arrives."
StaleSchedule(expected, cycle) == expected > cycle

\* A cycle that does not look at the process-requested flag.
AfterProcessRequestIgnored(ps, requested) == ps

\* The process-requested flag resets every state but Started to WaitingForStart.
AfterProcessRequest(ps, requested) ==
    IF requested /\ ~IsStarted(ps) THEN WaitingForStart ELSE ps

\* "We can't process a plugin which failed to start processing."
IsErrored(ps) == ps = Errored

\* "Check if inputs are quiet or not"
QuietStop(ps, note, in, frames) ==
    /\ ps = Started("ContinueIfNotQuiet")
    /\ ~note
    /\ AudioInputsSilent(in, frames)

\* "Check if the plugin should be waking up"
NeedsStart(ps) == ps \in {Stopped, WaitingForStart}

\* A wake path that starts a sleeping plugin in every cycle.
StaysAsleepNever(ps, note) == FALSE

\* "The plugin is sleeping, there is no request to wake it up, and there are
\* no events to process."
StaysAsleep(ps, note) == ps = Stopped /\ ~note

\* A failed start that leaves the plugin waiting for the next attempt.
StateAfterStartErrorWaiting == WaitingForStart

\* "The plugin failed to start processing."
StateAfterStartError == Errored

\* A flush that is repeated.
FlushCallsTwice(param) == IF param THEN 2 ELSE 0

\* has_param_in_event decides whether param_flush is invoked.
FlushCalls(param) == IF param THEN 1 ELSE 0

\* An update that takes every status for a good one.
StateAfterStatusStarted(status) == Started(status)

\* "Update processing state"
StateAfterStatus(status) ==
    CASE status = "Sleep" -> Stopped
      [] status = "Error" -> Errored
      [] OTHER -> Started(status)

\* Whether stop_processing is invoked for the status the plugin returned.
StopsAfterStatus(status) == status = "Sleep"

\* "Discard all output buffers."
OutputAfterStatus(status, out, frames) ==
    IF status = "Error" THEN ClearAllOutputs(out, frames) ELSE out

(***************************************************************************)
(* The bypass stage                                                        *)
(***************************************************************************)
\* "Process bypassing": `first` and `second` are the two loads of the shared
\* bypass flag, the one compared and the one stored.
BypassToggle(old, first, second, left, w) ==
    IF old = first
    THEN [bypassed |-> old, left |-> left, w |-> w]
    ELSE IF left = 0
         THEN [bypassed |-> second, left |-> DeclickFrames,
               w |-> IF second THEN Unit ELSE 0]
         ELSE [bypassed |-> second, left |-> DeclickFrames - left, w |-> w]

\* bypass_declick: the number of frames of this cycle the ramp covers.
RampFrames(left, frames) == Min(left, frames)

\* bypass_declick: `declick` after its i-th step of bypass_declick_inc.
Weight(w, byp, i) == IF byp THEN w - i ELSE w + i

\* bypass_declick: one sample of the crossfade, out * declick + in * (1 - declick).
Mix(o, inp, wi) == (o * wi + inp * (Unit - wi)) \div Unit

\* bypass_declick, a main output channel that has an input channel.
MixChannel(o, inp, w, byp, n, frames) ==
    Buffer([i \in 1..Len(o.data) |->
               IF i <= n THEN Mix(o.data[i], inp.data[i], Weight(w, byp, i))
               ELSE IF byp /\ i <= frames THEN inp.data[i]
               ELSE o.data[i]],
           FALSE)

\* bypass_declick, an output channel with no input channel: it ramps against zero.
FadeChannel(o, w, byp, n, frames) ==
    Buffer([i \in 1..Len(o.data) |->
               IF i <= n THEN Mix(o.data[i], 0, Weight(w, byp, i))
               ELSE IF byp /\ i <= frames THEN 0
               ELSE o.data[i]],
           FALSE)

\* bypass_declick
BypassDeclick(in, out, through, byp, w, left, frames) ==
    LET n == RampFrames(left, frames)
        new_out ==
            [k \in 1..Len(out) |->
                [c \in 1..Len(out[k]) |->
                    IF through /\ k = 1 /\ c <= Len(in[1])
                    THEN MixChannel(out[k][c], in[1][c], w, byp, n, frames)
                    ELSE FadeChannel(out[k][c], w, byp, n, frames)]]
    IN  [out |-> new_out, left |-> left - n, w |-> Weight(w, byp, n)]

\* bypass: the copy loop borrows out_channel as its source and then borrows
\* out_channel mutably, which AtomicRefCell refuses: the loop's first pass aborts.
BypassAborts(in, out, through) ==
    /\ through
    /\ ~PortHasSilentHint(in[1])
    /\ Min(Len(in[1]), Len(out[1])) > 0

\* bypass: what the outputs hold when it returns or aborts.
Bypass(in, out, through, frames) == ClearAllOutputs(out, frames)

(***************************************************************************)
(* One call of process().  ProcessBegin is the load of the active state;   *)
(* ProcessFinish is everything after it.  The control context's writes of  *)
(* the shared state interleave with the two.  An input of the cycle (the   *)
(* audio inputs, whether a note or a parameter event arrived) is chosen    *)
(* where the code first reads it, and is recorded only then.               *)
(***************************************************************************)
\* The events a plugin leaves in out_events in a cycle it processes.
PluginOutEvents == <<"event">>

\* What the output event and note buffers hold when process() is called: what
\* the cycle before left in them.
StaleOutEvents == <<"event">>

\* A clear_before_process that leaves the buffers as they are.
ClearBeforeProcessKept(events) == events

\* "Always clear event and note output buffers."
ClearBeforeProcess(events) == <<>>

\* "Read from output events queue": the plugin's events reach the output
\* buffers.
ReadOutputEvents(events, out_events) == events \o out_events

\* The outcome of a cycle that changes nothing but what the fields below say.
Outcome ==
    [ps |-> processing_state, active |-> active_state, out |-> audio_out,
     in |-> audio_in, ret |-> "false", calls |-> NoCalls, plug |-> plugin_processing,
     bypassed |-> bypassed, w |-> bypass_declick, left |-> bypass_declick_frames_left,
     shared |-> shared_bypassed, panicked |-> FALSE,
     note |-> FALSE, param |-> FALSE, status |-> "None", start |-> "None",
     pre_out |-> <<>>, declick_from |-> 0, left_from |-> 0,
     events |-> event_buffers_out]

Commit(frames, r) ==
    /\ processing_state' = r.ps
    /\ active_state' = r.active
    /\ audio_out' = r.out
    /\ audio_in' = r.in
    /\ ret' = IF r.panicked THEN "panic" ELSE r.ret
    /\ calls' = r.calls
    /\ start_result' = r.start
    /\ plugin_processing' = r.plug
    /\ bypassed' = r.bypassed
    /\ bypass_declick' = r.w
    /\ bypass_declick_frames_left' = r.left
    /\ shared_bypassed' = r.shared
    /\ panicked' = r.panicked
    /\ has_note_in_event' = r.note
    /\ has_param_in_event' = r.param
    /\ new_status' = r.status
    /\ pre_out' = r.pre_out
    /\ declick_from' = r.declick_from
    /\ left_from' = r.left_from
    /\ event_buffers_out' = r.events
    /\ proc_info' = [frames |-> frames, schedule_version |-> cycle_version]
    /\ pc' = "idle"
    /\ UNCHANGED <<sumVars, eventVars, bufVars, engVars, is_process_thread, schedule_version, process_requested, main_through, state,
                   cycle_version, alive>>

\* The cycle from the plugin's process on: `r` holds the state the plugin is
\* invoked in, `second` the second load of the shared bypass flag.
RunPlugin(frames, r, status, pattern, second) ==
    LET written == OutputAfterStatus(status, PluginWrite(r.out, pattern, frames), frames)
        stops == IF StopsAfterStatus(status) THEN 1 ELSE 0
        t == BypassToggle(bypassed, shared_bypassed, second,
                          bypass_declick_frames_left, bypass_declick)
        d == BypassDeclick(r.in, written, main_through, t.bypassed, t.w, t.left, frames)
        after ==
            [r EXCEPT !.ps = StateAfterStatus(status),
                      !.calls = [r.calls EXCEPT !.process = 1, !.stop = @ + stops],
                      !.plug = IF stops = 1 THEN FALSE ELSE r.plug,
                      !.status = status,
                      !.events = ReadOutputEvents(r.events, PluginOutEvents),
                      !.bypassed = t.bypassed,
                      !.shared = second,
                      !.pre_out = written,
                      !.declick_from = t.w,
                      !.left_from = t.left]
    IN  IF t.left # 0
        THEN [after EXCEPT !.out = d.out, !.w = d.w, !.left = d.left]
        ELSE IF t.bypassed
        THEN [after EXCEPT !.out = Bypass(r.in, written, main_through, frames),
                           !.w = t.w, !.left = t.left,
                           !.panicked = BypassAborts(r.in, written, main_through)]
        ELSE [after EXCEPT !.out = written, !.w = t.w, !.left = t.left]

\* Whether process() reads has_note_in_event in state ps.
ReadsNote(ps) == ps = Started("ContinueIfNotQuiet") \/ ps = Stopped

\* Whether the quiet check scans the audio inputs.
QuietReadsInputs(ps, note) == ps = Started("ContinueIfNotQuiet") /\ ~note

\* Whether the bypass stage reads the main input port.
BypassReadsInputs ==
    LET t == BypassToggle(bypassed, shared_bypassed, shared_bypassed,
                          bypass_declick_frames_left, bypass_declick)
    IN  main_through /\ (t.left # 0 \/ t.bypassed)

\* The values the second load of the shared bypass flag (line 245) may return
\* after the first (line 244) returned `first`: the same, or the other one
\* when a store of the control context fell between the two loads.  A store
\* in between is followed while the mix weight w is within 0..Unit.
SecondLoads(old, first, w) ==
    IF old # first /\ w \in 0..Unit THEN BOOLEAN ELSE {first}

\* The plugin's process and the bypass stage.
Processed(frames, r, inputs_read) ==
    \E status \in Statuses, pattern \in OutPatterns :
    \E second \in SecondLoads(bypassed, shared_bypassed, bypass_declick) :
    \E in \in IF ~inputs_read /\ BypassReadsInputs
              THEN AudioInputs(frames) ELSE {r.in} :
       Commit(frames, RunPlugin(frames, [r EXCEPT !.in = in], status, pattern, second))

\* process(), up to the load of the active state.  The tasks that ran earlier
\* in the cycle have left the shared buffers behind.
ProcessBegin ==
    /\ pc = "idle"
    /\ alive
    /\ ~panicked
    /\ pc' = "running"
    /\ state' = active_state
    /\ audio_in' = UnreadInputs
    /\ audio_out' = StaleOutputs
    /\ proc_info' = [frames |-> 0, schedule_version |-> cycle_version]
    /\ has_note_in_event' = FALSE
    /\ has_param_in_event' = FALSE
    /\ ret' = "none"
    /\ calls' = NoCalls
    /\ start_result' = "None"
    /\ new_status' = "None"
    /\ pre_out' = <<>>
    /\ declick_from' = 0
    /\ left_from' = 0
    /\ event_buffers_out' = ClearBeforeProcess(event_buffers_out)
    /\ UNCHANGED <<sumVars, eventVars, bufVars, engVars, is_process_thread, processing_state, schedule_version, bypassed, bypass_declick,
                   bypass_declick_frames_left, active_state, shared_bypassed,
                   process_requested, plugin_processing,
                   main_through, cycle_version, alive, panicked>>

\* process(), from the test of the loaded active state to its return.
ProcessFinish ==
    /\ pc = "running"
    /\ \E frames \in 1..MaxFrames :
          LET cleared == ClearAllOutputs(audio_out, frames)
              ps == AfterProcessRequest(processing_state, process_requested)
          IN  IF DropRequested(state)
              THEN LET stops == IF IsStarted(processing_state) THEN 1 ELSE 0
                   IN  Commit(frames,
                              [Outcome EXCEPT !.out = cleared, !.ret = "true",
                                              !.calls = [NoCalls EXCEPT !.stop = stops],
                                              !.plug = IF stops = 1 THEN FALSE ELSE @])
              ELSE IF StaleSchedule(schedule_version, cycle_version)
              THEN Commit(frames, [Outcome EXCEPT !.out = cleared])
              ELSE IF IsErrored(ps)
              THEN Commit(frames, [Outcome EXCEPT !.ps = ps, !.out = cleared])
              ELSE \E note \in IF ReadsNote(ps) THEN BOOLEAN ELSE {FALSE} :
                   \E in \in IF QuietReadsInputs(ps, note)
                             THEN AudioInputs(frames) ELSE {audio_in} :
                   LET seen == [Outcome EXCEPT !.ps = ps, !.note = note, !.in = in]
                       Flushed(param) ==
                           [seen EXCEPT !.out = cleared, !.param = param,
                                        !.calls = [@ EXCEPT !.flush = FlushCalls(param)]]
                   IN  IF QuietStop(ps, note, in, frames)
                       THEN \E param \in BOOLEAN :
                               Commit(frames,
                                      [Flushed(param) EXCEPT !.ps = Stopped, !.plug = FALSE,
                                                             !.calls = [@ EXCEPT !.stop = 1]])
                       ELSE IF NeedsStart(ps)
                       THEN IF StaysAsleep(ps, note)
                            THEN \E param \in BOOLEAN : Commit(frames, Flushed(param))
                            ELSE \/ \* start_processing fails
                                    \E param \in BOOLEAN :
                                       Commit(frames,
                                              [Flushed(param) EXCEPT
                                                  !.ps = StateAfterStartError,
                                                  !.start = "Err",
                                                  !.calls = [@ EXCEPT !.start = 1]])
                                 \/ \* start_processing succeeds
                                    Processed(frames,
                                              [seen EXCEPT !.active = "Active",
                                                           !.plug = TRUE,
                                                           !.start = "Ok",
                                                           !.calls = [@ EXCEPT !.start = 1]],
                                              QuietReadsInputs(ps, note))
                       ELSE Processed(frames, seen, QuietReadsInputs(ps, note))

(***************************************************************************)
(* The control context                                                     *)
(***************************************************************************)
\* The control context asks for an active plugin's processor to be dropped.
RequestDrop ==
    /\ alive
    /\ active_state = "Active"
    /\ active_state' = "WaitingToDrop"
    /\ UNCHANGED <<sumVars, eventVars, bufVars, engVars, event_buffers_out, is_process_thread, processing_state, schedule_version, bypassed, bypass_declick,
                   bypass_declick_frames_left, shared_bypassed,
                   process_requested, plugin_processing, audio_in, audio_out,
                   main_through, pc, state, cycle_version, alive, panicked, proc_info,
                   has_note_in_event, has_param_in_event, ret, calls, new_status, start_result,
                   pre_out, declick_from, left_from>>

\* The control context toggles the shared bypass flag.
SetBypassed ==
    /\ alive
    /\ shared_bypassed' = ~shared_bypassed
    /\ UNCHANGED <<sumVars, eventVars, bufVars, engVars, event_buffers_out, is_process_thread, processing_state, schedule_version, bypassed, bypass_declick,
                   bypass_declick_frames_left, active_state,
                   process_requested, plugin_processing, audio_in, audio_out,
                   main_through, pc, state, cycle_version, alive, panicked, proc_info,
                   has_note_in_event, has_param_in_event, ret, calls, new_status, start_result,
                   pre_out, declick_from, left_from>>

\* The control context sets or clears the process-requested flag.
SetProcessRequested ==
    /\ alive
    /\ process_requested' = ~process_requested
    /\ UNCHANGED <<sumVars, eventVars, bufVars, engVars, event_buffers_out, is_process_thread, processing_state, schedule_version, bypassed, bypass_declick,
                   bypass_declick_frames_left, active_state, shared_bypassed,
                   plugin_processing, audio_in, audio_out,
                   main_through, pc, state, cycle_version, alive, panicked, proc_info,
                   has_note_in_event, has_param_in_event, ret, calls, new_status, start_result,
                   pre_out, declick_from, left_from>>

\* The audio context picks up the next schedule between two cycles.
NewSchedule ==
    /\ alive
    /\ pc = "idle"
    /\ cycle_version < MaxVersion
    /\ cycle_version' = cycle_version + 1
    /\ UNCHANGED <<sumVars, eventVars, bufVars, engVars, event_buffers_out, is_process_thread, processing_state, schedule_version, bypassed, bypass_declick,
                   bypass_declick_frames_left, active_state, shared_bypassed,
                   process_requested, plugin_processing, audio_in, audio_out,
                   main_through, pc, state, alive, panicked, proc_info,
                   has_note_in_event, has_param_in_event, ret, calls, new_status, start_result,
                   pre_out, declick_from, left_from>>

\* A drop that never stops the plugin.
DropStopsNever(on_process_thread, ps) == FALSE

\* A drop that stops a started plugin on whatever thread it runs.
DropStopsOnAnyThread(on_process_thread, ps) == IsStarted(ps)

\* Drop: stop_processing is invoked on the process thread, if the state is Started.
DropStops(on_process_thread, ps) == on_process_thread /\ IsStarted(ps)

\* Drop for PluginHostProcessor, on the process thread or on another one, up
\* to the store of the active state: the test of the thread and of the
\* processing state, and stop_processing.
DropProcessor ==
    /\ alive
    /\ pc = "idle"
    /\ \E on_process_thread \in BOOLEAN :
          LET stops == IF DropStops(on_process_thread, processing_state) THEN 1 ELSE 0
          IN  /\ is_process_thread' = on_process_thread
              /\ calls' = [NoCalls EXCEPT !.stop = stops]
              /\ plugin_processing' = IF stops = 1 THEN FALSE ELSE plugin_processing
    /\ pc' = "dropping"
    /\ alive' = FALSE
    /\ ret' = "dropped"
    /\ UNCHANGED <<sumVars, eventVars, bufVars, engVars, event_buffers_out, processing_state, schedule_version, bypassed, bypass_declick,
                   bypass_declick_frames_left, active_state, shared_bypassed,
                   process_requested, audio_in, audio_out,
                   main_through, state, cycle_version, panicked, proc_info,
                   has_note_in_event, has_param_in_event, new_status, start_result,
                   pre_out, declick_from, left_from>>

\* Drop, its last statement: the store of DroppedAndReadyToDeactivate.
DropStore ==
    /\ pc = "dropping"
    /\ active_state' = "DroppedAndReadyToDeactivate"
    /\ pc' = "idle"
    /\ UNCHANGED <<sumVars, eventVars, bufVars, engVars, event_buffers_out, is_process_thread, processing_state, schedule_version, bypassed, bypass_declick,
                   bypass_declick_frames_left, shared_bypassed,
                   process_requested, plugin_processing, audio_in, audio_out,
                   main_through, state, cycle_version, alive, panicked, proc_info,
                   has_note_in_event, has_param_in_event, ret, calls, new_status, start_result,
                   pre_out, declick_from, left_from>>

(***************************************************************************)
(* AudioSumTask.  The task's samples are fixed-point integers in units of  *)
(* f32::EPSILON: the integer x stands for the sample x * f32::EPSILON.     *)
(***************************************************************************)
\* std::f32::EPSILON in the unit of the task's samples.
EPSILON == 1

Abs(x) == IF x < 0 THEN -x ELSE x

\* The first samples of the buffers the task is given, and their slopes.
SumSamples == {-2, 0, 1}
SumSteps == {0, 2}

SumData(v, step) == [i \in 1..MaxFrames |-> v + (i - 1) * step]

\* The buffers an upstream task leaves: the constant flag is set only on a
\* buffer that is uniform over the cycle's frames.
SumBuffers(frames) ==
    { Buffer(SumData(t[1], t[2]), t[3]) :
        t \in {u \in SumSamples \X SumSteps \X BOOLEAN :
                  u[3] => Uniform(SumData(u[1], u[2]), frames)} }

\* The output buffer as the task finds it.
StaleSum == Buffer([i \in 1..MaxFrames |-> 7], FALSE)

\* A copy that stops one frame short.
CopyFromSliceShort(out, src, frames) ==
    [i \in 1..Len(out) |-> IF i < frames THEN src[i] ELSE out[i]]

\* out.copy_from_slice(in_0), out and in_0 the first `frames` samples.
CopyFromSlice(out, src, frames) ==
    [i \in 1..Len(out) |-> IF i <= frames THEN src[i] ELSE out[i]]

\* The test without the absolute value.
IsSilentValueSigned(val) == val <= EPSILON

\* input[0].abs() <= std::f32::EPSILON
IsSilentValue(val) == Abs(val) <= EPSILON

\* The flag left as it was.
FlagAfterAddKept(is_constant) == is_constant

\* is_constant = false, on the path that adds sample by sample.
FlagAfterAdd(is_constant) == FALSE

\* One pass of the loop over the inputs after the first: `acc` holds the
\* output samples and the local is_constant.
AddInput(acc, ch, frames) ==
    IF ch.is_constant
    THEN IF IsSilentValue(ch.data[1])
         THEN acc
         ELSE Buffer([i \in 1..Len(acc.data) |->
                         IF i <= frames THEN acc.data[i] + ch.data[1] ELSE acc.data[i]],
                     acc.is_constant)
    ELSE Buffer([i \in 1..Len(acc.data) |->
                    IF i <= frames THEN acc.data[i] + ch.data[i] ELSE acc.data[i]],
                FlagAfterAdd(acc.is_constant))

\* for ch in self.audio_in.iter().skip(1)
RECURSIVE SumLoop(_, _, _, _)
SumLoop(acc, ins, k, frames) ==
    IF k > Len(ins) THEN acc
    ELSE SumLoop(AddInput(acc, ins[k], frames), ins, k + 1, frames)

\* AudioSumTask::process: the output buffer it leaves.
AudioSumTaskProcess(ins, out, frames) ==
    SumLoop(Buffer(CopyFromSlice(out.data, ins[1].data, frames), ins[1].is_constant),
            ins, 2, frames)

AudioSumProcess ==
    /\ sum_pc = "ready"
    /\ sum_audio_out' = AudioSumTaskProcess(sum_audio_in, sum_audio_out, sum_frames)
    /\ sum_pc' = "done"
    /\ UNCHANGED <<procVars, eventVars, bufVars, engVars, sum_audio_in, sum_frames>>

(***************************************************************************)
(* NoteSumTask and AutomationSumTask                                       *)
(***************************************************************************)
Events == {"A", "B"}

\* The event buffers upstream tasks leave: at most MaxEvents events each.
EventBuffers == UNION {[1..n -> Events] : n \in 0..MaxEvents}

\* SharedBuffer::with_capacity(capacity): the size every event buffer of the
\* schedule is given when the engine is activated.
Capacity == MaxEvents

\* The output buffer as a task finds it: the events of the cycle before.
StaleEvents == <<"B", "A">>

\* out_buf.clear()
ClearEvents(out_buf) == <<>>

\* The slice put in front of the buffer.
ExtendAtFront(out_buf, in_buf) == in_buf \o out_buf

\* out_buf.extend_from_slice(in_buf.as_slice())
ExtendFromSlice(out_buf, in_buf) == out_buf \o in_buf

\* for in_buf in the task's inputs
RECURSIVE ExtendLoop(_, _, _)
ExtendLoop(out_buf, ins, k) ==
    IF k > Len(ins) THEN out_buf
    ELSE ExtendLoop(ExtendFromSlice(out_buf, ins[k]), ins, k + 1)

\* NoteSumTask::process: the output buffer it leaves.
NoteSumTaskProcess(ins, out_buf) == ExtendLoop(ClearEvents(out_buf), ins, 1)

\* AutomationSumTask::process: the output buffer it leaves.
AutomationSumTaskProcess(ins, out_buf) == ExtendLoop(ClearEvents(out_buf), ins, 1)

NoteSumProcess ==
    /\ event_pc = "note"
    /\ note_out' = NoteSumTaskProcess(note_in, note_out)
    /\ event_pc' = "note done"
    /\ UNCHANGED <<procVars, sumVars, bufVars, engVars, note_in, automation_input, automation_output>>

AutomationSumProcess ==
    /\ event_pc = "automation"
    /\ automation_output' = AutomationSumTaskProcess(automation_input, automation_output)
    /\ event_pc' = "automation done"
    /\ UNCHANGED <<procVars, sumVars, bufVars, engVars, note_in, note_out, automation_input>>

(***************************************************************************)
(* A port of two SharedBuffer<f32> channels and the methods called on it   *)
(***************************************************************************)
\* The samples a writer stores through borrow_mut.
BufSamples == {0, 1}

\* What buf_op records of a call.
BufOp(name, ch, n, before, result) ==
    [name |-> name, ch |-> ch, n |-> n, before |-> before, result |-> result]

\* SharedBuffer::clear(n) on a channel, n up to past the buffer's length.
BufClear ==
    \E ch \in 1..Len(buf_port), n \in 0..(MaxFrames + 1) :
        /\ buf_port' = [buf_port EXCEPT ![ch] = Clear(@, n)]
        /\ buf_op' = BufOp("clear", ch, n, buf_port[ch], FALSE)
        /\ UNCHANGED <<procVars, sumVars, eventVars, engVars>>

\* SharedBuffer::set_constant
BufSetConstant ==
    \E ch \in 1..Len(buf_port), is_constant \in BOOLEAN :
        /\ buf_port' = [buf_port EXCEPT ![ch] = Buffer(@.data, is_constant)]
        /\ buf_op' = BufOp("set_constant", ch, 0, buf_port[ch], is_constant)
        /\ UNCHANGED <<procVars, sumVars, eventVars, engVars>>

\* A store of one sample through SharedBuffer::borrow_mut.
BufWrite ==
    \E ch \in 1..Len(buf_port), i \in 1..MaxFrames, x \in BufSamples :
        /\ buf_port' = [buf_port EXCEPT ![ch] =
                           Buffer([@.data EXCEPT ![i] = x], @.is_constant)]
        /\ buf_op' = BufOp("write", ch, i, buf_port[ch], FALSE)
        /\ UNCHANGED <<procVars, sumVars, eventVars, engVars>>

\* SharedBuffer::has_silent_hint
BufHasSilentHint ==
    \E ch \in 1..Len(buf_port) :
        /\ buf_op' = BufOp("has_silent_hint", ch, 0, buf_port[ch],
                           HasSilentHint(buf_port[ch]))
        /\ UNCHANGED <<procVars, sumVars, eventVars, engVars, buf_port>>

\* AudioPortBuffer::is_silent
PortIsSilent ==
    \E n \in 0..(MaxFrames + 1) :
        /\ buf_op' = BufOp("is_silent", 0, n, NewBuffer, IsSilent(buf_port, n))
        /\ UNCHANGED <<procVars, sumVars, eventVars, engVars, buf_port>>

\* AudioPortBufferMut::is_silent
PortMutIsSilent ==
    \E n \in 0..(MaxFrames + 1) :
        /\ buf_op' = BufOp("is_silent_mut", 0, n, NewBuffer, IsSilentMut(buf_port, n))
        /\ UNCHANGED <<procVars, sumVars, eventVars, engVars, buf_port>>

(***************************************************************************)
(* DSEngineMainThread: activation, the timer wheel and the collector       *)
(***************************************************************************)

\* The keys of TimerEntryKey; one plugin instance with one timer at most.
MainIdleTimer == "MainIdleTimer"
GarbageCollectTimer == "GarbageCollectTimer"
PluginRegisteredTimer == "PluginRegisteredTimer"

\* The holders of handles of the collector's allocations while the engine is
\* activated: the ActivatedState (audio graph, tempo map) and the process
\* thread (the shared schedule).
Holders == {"activated_state", "process_thread"}

\* The fields of DSEngineMainThread as one value, with the counters that follow
\* them.
Engine ==
    [activated_state |-> activated_state,
     plugins         |-> plugins,
     graphs_built    |-> graphs_built,
     threads_spawned |-> threads_spawned,
     threads_joined  |-> threads_joined,
     buffer_refs     |-> buffer_refs,
     garbage         |-> garbage,
     timer_wheel     |-> timer_wheel,
     crash_msg       |-> crash_msg,
     crashes         |-> crashes]

\* A timer entry registered at instant t: first due one period later. The
\* fields first and fired follow the entry: its first due instant and how
\* often advance has returned it.
NewEntry(key, period, t) ==
    [key |-> key, due |-> t + period, period |-> period,
     first |-> t + period, fired |-> 0]

\* EngineTimerWheel::new: the main idle timer and the garbage collection timer.
TimerWheelNew(t) ==
    {NewEntry(MainIdleTimer, IdlePeriod, t),
     NewEntry(GarbageCollectTimer, CollectPeriod, t)}

\* EngineTimerWheel::reset: the wheel as new() makes it.
TimerWheelReset(wheel, t) == TimerWheelNew(t)

\* Removing and registering the timer of a plugin instance.
Unregister(wheel, key) == {entry \in wheel : entry.key # key}

Register(wheel, key, period, t) ==
    Unregister(wheel, key) \cup {NewEntry(key, period, t)}

\* An entry is due at instant t.
IsDue(entry, t) == entry.due <= t

\* A rescheduling that counts the period from the instant of the poll.
RescheduleFromNow(entry, t) ==
    [entry EXCEPT !.due = t + entry.period, !.fired = @ + 1]

\* advance reschedules a due entry to its old due instant plus its period.
Reschedule(entry, t) ==
    [entry EXCEPT !.due = @ + entry.period, !.fired = @ + 1]

\* EngineTimerWheel::advance at instant t: the keys it collects, and the wheel
\* it leaves.
Elapsed(wheel, t) == {entry.key : entry \in {x \in wheel : IsDue(x, t)}}

Advance(wheel, t) ==
    {IF IsDue(entry, t) THEN Reschedule(entry, t) ELSE entry : entry \in wheel}

\* The orders in which advance may hand over the keys it collected.
Orderings(S) ==
    {s \in [1..Cardinality(S) -> S] : \A i, j \in 1..Cardinality(S) : s[i] = s[j] => i = j}

\* AudioGraph::reset: every plugin instance removed, its timer with it.
GraphReset(e) ==
    [e EXCEPT !.plugins = 0,
              !.timer_wheel = Unregister(@, PluginRegisteredTimer)]

\* Drop for ActivatedState: the run flag cleared and the process thread joined;
\* the handles the state and the thread held are released, and what they
\* referred to waits for the collector.
DropActivatedState(e) ==
    [e EXCEPT !.threads_joined = @ + 1,
              !.garbage = IF e.buffer_refs = {} THEN @ ELSE @ + 1,
              !.buffer_refs = {}]

\* collect_garbage: the collector frees every allocation without a handle.
CollectGarbage(e) == [e EXCEPT !.garbage = 0]

\* A deactivate_engine that leaves a pending crash message in place.
KeepCrashMsg(e) == e

\* self.crash_msg = None
ClearCrashMsg(e) == [e EXCEPT !.crash_msg = "None"]

\* An on_timer that reads the crash message and leaves it in place.
PeekCrashMsg(e) == e

\* self.crash_msg.take()
TakeCrashMsg(e) == [e EXCEPT !.crash_msg = "None"]

\* A check that never finds the engine activated.
NeverActivated(e) == FALSE

\* self.activated_state.is_some()
IsActivated(e) == e.activated_state = "Some"

\* activate_engine's check that the engine is already activated.
AlreadyActivated(e) == e.activated_state = "Some"

\* compile_audio_graph at instant t; ok tells whether AudioGraph::compile
\* succeeds. On failure the taken ActivatedState lives to the end of the block:
\* `let _ = activated_state` moves nothing.
CompileAudioGraph(e, ok, t) ==
    IF ~IsActivated(e) \/ ok
    THEN e
    ELSE LET taken == [e EXCEPT !.activated_state = "None"]
             reset == GraphReset(taken)
             wheel == [reset EXCEPT !.timer_wheel = TimerWheelReset(@, t)]
             crash == [wheel EXCEPT !.crash_msg = "Some", !.crashes = @ + 1]
         IN  DropActivatedState(crash)

\* activate_engine at instant t: the engine it leaves and what it returns. The
\* empty graph compiles.
Activate(e, t) ==
    IF AlreadyActivated(e)
    THEN [engine |-> e, ret |-> "None"]
    ELSE LET built == [e EXCEPT !.graphs_built = @ + 1,
                                !.buffer_refs = Holders,
                                !.threads_spawned = @ + 1,
                                !.plugins = 0,
                                !.activated_state = "Some"]
         IN  [engine |-> CompileAudioGraph(built, TRUE, t), ret |-> "Some"]

\* deactivate_engine at instant t. The taken ActivatedState lives to the end of
\* the function, so it is dropped after the collection pass.
Deactivate(e, t) ==
    IF ~IsActivated(e)
    THEN [engine |-> e, ret |-> "false"]
    ELSE LET taken == [e EXCEPT !.activated_state = "None"]
             reset == GraphReset(taken)
             wheel == [reset EXCEPT !.timer_wheel = TimerWheelReset(@, t)]
             clear == ClearCrashMsg(wheel)
             swept == CollectGarbage(clear)
         IN  [engine |-> DropActivatedState(swept), ret |-> "true"]

\* modify_graph at instant t: plugin instances removed, then added, then the
\* graph compiled.
Modify(e, remove, add, ok, t) ==
    IF ~IsActivated(e)
    THEN [engine |-> e, ret |-> "None"]
    ELSE LET removed == IF remove /\ e.plugins > 0
                        THEN [e EXCEPT !.plugins = @ - 1,
                                       !.timer_wheel = Unregister(@, PluginRegisteredTimer)]
                        ELSE e
             added == IF add THEN [removed EXCEPT !.plugins = @ + 1] ELSE removed
         IN  [engine |-> CompileAudioGraph(added, ok, t), ret |-> "Some"]

\* What AudioGraph::on_idle may do in one call: register the timer of a plugin
\* instance with a period (0: none asked for), and ask for a recompilation.
IdleOutcomes ==
    [register : 0..CollectPeriod, recompile : BOOLEAN, ok : BOOLEAN]

\* The MainIdleTimer arm of on_timer.
OnIdle(e, idle, t) ==
    IF ~IsActivated(e)
    THEN e
    ELSE LET asked == IF idle.register > 0 /\ e.plugins > 0
                      THEN [e EXCEPT !.timer_wheel =
                                Register(@, PluginRegisteredTimer, idle.register, t)]
                      ELSE e
         IN  IF idle.recompile THEN CompileAudioGraph(asked, idle.ok, t) ELSE asked

\* One elapsed entry of on_timer's loop.
DispatchEntry(e, key, idle, t) ==
    CASE key = MainIdleTimer -> OnIdle(e, idle, t)
      [] key = GarbageCollectTimer -> CollectGarbage(e)
      [] OTHER -> e

\* on_timer's loop over the elapsed entries.
RECURSIVE Dispatch(_, _, _, _)
Dispatch(e, keys, idle, t) ==
    IF keys = <<>>
    THEN e
    ELSE Dispatch(DispatchEntry(e, Head(keys), idle, t), Tail(keys), idle, t)

\* The engine events on_timer pushes before it polls the wheel.
CrashEvents(e) == IF e.crash_msg = "Some" THEN <<"EngineCrashed">> ELSE <<>>

SetEngine(e) ==
    /\ activated_state' = e.activated_state
    /\ plugins' = e.plugins
    /\ graphs_built' = e.graphs_built
    /\ threads_spawned' = e.threads_spawned
    /\ threads_joined' = e.threads_joined
    /\ buffer_refs' = e.buffer_refs
    /\ garbage' = e.garbage
    /\ timer_wheel' = e.timer_wheel
    /\ crash_msg' = e.crash_msg
    /\ crashes' = e.crashes

EngOp(name, r) == [name |-> name, ret |-> r]

\* The control context's clock moves on.
Tick ==
    /\ now < MaxTime
    /\ now' = now + 1
    /\ UNCHANGED <<procVars, sumVars, eventVars, bufVars, activated_state, plugins,
                   graphs_built, threads_spawned, threads_joined, buffer_refs, garbage,
                   timer_wheel, crash_msg, eng_op, events_out, elapsed, wheel_advanced,
                   crashes, reported>>

ActivateEngine ==
    /\ IsActivated(Engine) \/ graphs_built < MaxActivations
    /\ LET r == Activate(Engine, now)
       IN  /\ SetEngine(r.engine)
           /\ eng_op' = EngOp("activate_engine", r.ret)
    /\ UNCHANGED <<procVars, sumVars, eventVars, bufVars, now, events_out, elapsed,
                   wheel_advanced, reported>>

DeactivateEngine ==
    /\ LET r == Deactivate(Engine, now)
       IN  /\ SetEngine(r.engine)
           /\ eng_op' = EngOp("deactivate_engine", r.ret)
    /\ UNCHANGED <<procVars, sumVars, eventVars, bufVars, now, events_out, elapsed,
                   wheel_advanced, reported>>

ModifyGraph ==
    /\ \E remove \in BOOLEAN, add \in BOOLEAN, ok \in BOOLEAN :
          /\ add => plugins - (IF remove /\ plugins > 0 THEN 1 ELSE 0) < MaxPlugins
          /\ ~ok => crashes < MaxCrashes
          /\ LET r == Modify(Engine, remove, add, ok, now)
             IN  /\ SetEngine(r.engine)
                 /\ eng_op' = EngOp("modify_graph", r.ret)
    /\ UNCHANGED <<procVars, sumVars, eventVars, bufVars, now, events_out, elapsed,
                   wheel_advanced, reported>>

OnTimer ==
    /\ \E order \in Orderings(Elapsed(timer_wheel, now)), idle \in IdleOutcomes :
          /\ (idle.recompile /\ ~idle.ok) => crashes < MaxCrashes
          /\ LET taken == TakeCrashMsg(Engine)
                 polled == [taken EXCEPT !.timer_wheel = Advance(@, now)]
             IN  /\ SetEngine(Dispatch(polled, order, idle, now))
                 /\ events_out' = CrashEvents(Engine)
                 /\ reported' = reported + Len(CrashEvents(Engine))
                 /\ elapsed' = order
                 /\ wheel_advanced' = polled.timer_wheel
    /\ eng_op' = EngOp("on_timer", "events")
    /\ UNCHANGED <<procVars, sumVars, eventVars, bufVars, now>>

(***************************************************************************)
(* Initial states and specifications                                       *)
(***************************************************************************)
\* No port outside the processor's.
BufOff ==
    /\ buf_port = <<>>
    /\ buf_op = BufOp("none", 0, 0, NewBuffer, FALSE)

\* No AudioSumTask in the schedule.
SumOff ==
    /\ sum_audio_in = <<>>
    /\ sum_audio_out = NewBuffer
    /\ sum_frames = 0
    /\ sum_pc = "off"

\* No NoteSumTask and no AutomationSumTask in the schedule.
EventOff ==
    /\ note_in = <<>>
    /\ note_out = <<>>
    /\ automation_input = <<>>
    /\ automation_output = <<>>
    /\ event_pc = "off"

\* No engine in the specifications of the processor, the sum tasks and the buffers.
EngOff ==
    /\ activated_state = "None"
    /\ plugins = 0
    /\ graphs_built = 0
    /\ threads_spawned = 0
    /\ threads_joined = 0
    /\ buffer_refs = {}
    /\ garbage = 0
    /\ timer_wheel = {}
    /\ crash_msg = "None"
    /\ now = 0
    /\ eng_op = EngOp("none", "none")
    /\ events_out = <<>>
    /\ elapsed = <<>>
    /\ wheel_advanced = {}
    /\ crashes = 0
    /\ reported = 0

\* PluginHostProcessor::new, with the buffers of a freshly compiled schedule.
ProcInit ==
    /\ processing_state = WaitingForStart
    /\ schedule_version \in 0..MaxVersion
    /\ shared_bypassed \in BOOLEAN
    /\ bypassed = shared_bypassed
    /\ bypass_declick = IF bypassed THEN Unit ELSE 0
    /\ bypass_declick_frames_left = 0
    /\ active_state \in {"Inactive", "Active"}
    /\ process_requested = FALSE
    /\ plugin_processing = FALSE
    /\ audio_in = << <<NewBuffer>> >>
    /\ audio_out = << <<NewBuffer, NewBuffer>>, <<NewBuffer>> >>
    /\ main_through \in BOOLEAN
    /\ event_buffers_out = StaleOutEvents
    /\ pc = "idle"
    /\ state = "Inactive"
    /\ cycle_version = 0
    /\ alive = TRUE
    /\ is_process_thread = TRUE
    /\ panicked = FALSE
    /\ proc_info = [frames |-> 0, schedule_version |-> 0]
    /\ has_note_in_event = FALSE
    /\ has_param_in_event = FALSE
    /\ ret = "none"
    /\ calls = NoCalls
    /\ start_result = "None"
    /\ new_status = "None"
    /\ pre_out = <<>>
    /\ declick_from = 0
    /\ left_from = 0

\* A processor that no specification of a sum task runs.
ProcOff ==
    /\ ProcInit
    /\ schedule_version = 0
    /\ ~shared_bypassed
    /\ active_state = "Inactive"
    /\ ~main_through

Init == ProcInit /\ SumOff /\ EventOff /\ BufOff /\ EngOff

Next ==
    \/ ProcessBegin
    \/ ProcessFinish
    \/ RequestDrop
    \/ SetBypassed
    \/ SetProcessRequested
    \/ NewSchedule
    \/ DropProcessor
    \/ DropStore

Spec == Init /\ [][Next]_vars

\* A processor that is never bypassed and never dropped, under an audio
\* context whose schedule versions go up until the last one: a call of
\* process() returns, and a new schedule keeps arriving between the cycles as
\* long as one is outstanding.
InitSchedule ==
    /\ Init
    /\ ~shared_bypassed
    /\ ~main_through

NextSchedule ==
    \/ ProcessBegin
    \/ ProcessFinish
    \/ RequestDrop
    \/ SetProcessRequested
    \/ NewSchedule

SpecSchedule ==
    /\ InitSchedule
    /\ [][NextSchedule]_vars
    /\ WF_vars(ProcessFinish)
    /\ SF_vars(NewSchedule)

\* An AudioSumTask of 1..MaxInputs inputs before its call in a cycle.
InitAudioSum ==
    /\ ProcOff
    /\ EventOff
    /\ BufOff
    /\ EngOff
    /\ sum_frames \in 1..MaxFrames
    /\ sum_audio_in \in UNION {[1..n -> SumBuffers(sum_frames)] : n \in 1..MaxInputs}
    /\ sum_audio_out = StaleSum
    /\ sum_pc = "ready"

NextAudioSum == AudioSumProcess

SpecAudioSum == InitAudioSum /\ [][NextAudioSum]_vars

\* A NoteSumTask or an AutomationSumTask of 0..MaxInputs inputs before its call.
InitEventSum ==
    /\ ProcOff
    /\ SumOff
    /\ BufOff
    /\ EngOff
    /\ event_pc \in {"note", "automation"}
    /\ \E ins \in UNION {[1..n -> EventBuffers] : n \in 0..MaxInputs} :
          IF event_pc = "note"
          THEN /\ note_in = ins
               /\ note_out = StaleEvents
               /\ automation_input = <<>>
               /\ automation_output = <<>>
          ELSE /\ note_in = <<>>
               /\ note_out = <<>>
               /\ automation_input = ins
               /\ automation_output = StaleEvents

NextEventSum ==
    \/ NoteSumProcess
    \/ AutomationSumProcess

SpecEventSum == InitEventSum /\ [][NextEventSum]_vars

\* Two channels as SharedBuffer::new leaves them.
InitBuffer ==
    /\ ProcOff
    /\ SumOff
    /\ EventOff
    /\ EngOff
    /\ buf_port = <<NewBuffer, NewBuffer>>
    /\ buf_op = BufOp("new", 0, MaxFrames, NewBuffer, FALSE)

NextBuffer ==
    \/ BufClear
    \/ BufSetConstant
    \/ BufWrite
    \/ BufHasSilentHint
    \/ PortIsSilent
    \/ PortMutIsSilent

SpecBuffer == InitBuffer /\ [][NextBuffer]_vars

\* A processor that was dropped before its first cycle: none of its steps and
\* none of the control context's is enabled.
ProcGone ==
    /\ processing_state = WaitingForStart
    /\ schedule_version = 0
    /\ shared_bypassed = FALSE
    /\ bypassed = FALSE
    /\ bypass_declick = 0
    /\ bypass_declick_frames_left = 0
    /\ active_state = "DroppedAndReadyToDeactivate"
    /\ process_requested = FALSE
    /\ plugin_processing = FALSE
    /\ audio_in = << <<NewBuffer>> >>
    /\ audio_out = << <<NewBuffer, NewBuffer>>, <<NewBuffer>> >>
    /\ main_through = FALSE
    /\ event_buffers_out = StaleOutEvents
    /\ pc = "idle"
    /\ state = "Inactive"
    /\ cycle_version = 0
    /\ alive = FALSE
    /\ is_process_thread = TRUE
    /\ panicked = FALSE
    /\ proc_info = [frames |-> 0, schedule_version |-> 0]
    /\ has_note_in_event = FALSE
    /\ has_param_in_event = FALSE
    /\ ret = "dropped"
    /\ calls = NoCalls
    /\ start_result = "None"
    /\ new_status = "None"
    /\ pre_out = <<>>
    /\ declick_from = 0
    /\ left_from = 0

\* The producers of constant flags, each from the buffers it can be given: a
\* processor with its cycles (clear, bypass, declick), or an AudioSumTask
\* before its call.
InitProducers ==
    \/ Init
    \/ /\ ProcGone
       /\ EventOff
       /\ BufOff
       /\ EngOff
       /\ sum_frames \in 1..MaxFrames
       /\ sum_audio_in \in UNION {[1..n -> SumBuffers(sum_frames)] : n \in 1..MaxInputs}
       /\ sum_audio_out = StaleSum
       /\ sum_pc = "ready"

NextProducers ==
    \/ Next
    \/ AudioSumProcess

SpecProducers == InitProducers /\ [][NextProducers]_vars

\* DSEngineMainThread::new at instant 0.
InitEngine ==
    /\ ProcOff
    /\ SumOff
    /\ EventOff
    /\ BufOff
    /\ activated_state = "None"
    /\ plugins = 0
    /\ graphs_built = 0
    /\ threads_spawned = 0
    /\ threads_joined = 0
    /\ buffer_refs = {}
    /\ garbage = 0
    /\ timer_wheel = TimerWheelNew(0)
    /\ crash_msg = "None"
    /\ now = 0
    /\ eng_op = EngOp("new", "none")
    /\ events_out = <<>>
    /\ elapsed = <<>>
    /\ wheel_advanced = TimerWheelNew(0)
    /\ crashes = 0
    /\ reported = 0

NextEngine ==
    \/ Tick
    \/ ActivateEngine
    \/ DeactivateEngine
    \/ ModifyGraph
    \/ OnTimer

SpecEngine == InitEngine /\ [][NextEngine]_vars

(***************************************************************************)
(* Properties                                                              *)
(***************************************************************************)
\* A step of ProcessFinish: a call of process() returns (or aborts).
Returns == pc = "running" /\ pc' = "idle"

\* A call of process() has ended and what it did is on record.
Returned == pc = "idle" /\ ret \in {"true", "false", "panic"}

\* Every output port is all-zero over the first `frames` samples.
OutputsZero(out, frames) ==
    \A k \in 1..Len(out) : \A c \in 1..Len(out[k]) :
        \A i \in 1..frames : out[k][c].data[i] = 0

\* C1: when the active state loaded at the start of process() is
\* WaitingToDrop, then whatever the processing state, the expected schedule
\* version and the bypass state are, process() returns true, every output
\* port is all-zero over the cycle's frames, and stop_processing is invoked
\* exactly when the processing state is Started.
C1_DropHandled ==
    [][(Returns /\ state = "WaitingToDrop")
        => /\ ret' = "true"
           /\ OutputsZero(audio_out', proc_info'.frames)
           /\ calls'.stop = (IF processing_state.tag = "Started" THEN 1 ELSE 0)]_vars

\* A drop was handled for a started plugin in the middle of a bypass ramp.
C1_Witness ==
    /\ Returned /\ state = "WaitingToDrop" /\ ret = "true"
    /\ processing_state.tag = "Started" /\ calls.stop = 1
    /\ bypass_declick_frames_left > 0

\* A drop was handled while the expected schedule version was ahead.
C1_WitnessStale ==
    /\ Returned /\ state = "WaitingToDrop" /\ ret = "true"
    /\ schedule_version > proc_info.schedule_version

\* C2: if the loaded active state is not WaitingToDrop and the expected
\* schedule version exceeds the cycle's, process() returns false, all outputs
\* are all-zero, no plugin method is invoked, and the processing state is
\* unchanged.
C2_StaleScheduleFrozen ==
    [][(Returns /\ state # "WaitingToDrop" /\ schedule_version > cycle_version)
        => /\ ret' = "false"
           /\ OutputsZero(audio_out', proc_info'.frames)
           /\ calls' = [start |-> 0, stop |-> 0, process |-> 0, flush |-> 0]
           /\ processing_state' = processing_state]_vars

\* A stale cycle ended while the process-requested flag was set.
C2_Witness ==
    /\ Returned /\ state # "WaitingToDrop"
    /\ schedule_version > proc_info.schedule_version
    /\ process_requested
    /\ ret = "false"

\* C3: a drop request is never lost: whenever the control context's write of
\* WaitingToDrop lands, also between a cycle's load of the active state and
\* its store of Active after a successful start_processing, the active state
\* is still WaitingToDrop when the cycle ends, so that a later cycle returns
\* true.
C3_DropRequestKept ==
    [][(Returns /\ active_state = "WaitingToDrop")
        => active_state' = "WaitingToDrop"]_vars

\* C4: Errored is sticky: once the processing state is Errored no call of
\* process() changes it, whatever the active state, the process-requested
\* flag, the events and the schedule versions are, and start_processing is
\* not invoked again.
C4_ErroredSticky ==
    [][(processing_state.tag = "Errored")
        => /\ processing_state'.tag = "Errored"
           /\ (Returns => calls'.start = 0)]_vars

\* The main output channels that have an input channel.
MainChannels == 1..Min(Len(audio_in[1]), Len(audio_out[1]))

\* The bypass stage of the cycle on record ran its ramp.
Ramped == Returned /\ new_status # "None" /\ left_from # 0

\* The bypass stage of the cycle on record found the ramp over and bypass on.
SteadyBypass == Returned /\ new_status # "None" /\ left_from = 0 /\ bypassed

\* C5, the ramp: every main-port sample inside the ramp is out * w + in * (1 - w)
\* with w one step of 1/N further per sample.
C5_RampMix ==
    (Ramped /\ main_through) =>
        \A c \in MainChannels :
            \A i \in 1..Min(left_from, proc_info.frames) :
                LET wi == IF bypassed THEN declick_from - i ELSE declick_from + i
                IN  audio_out[1][c].data[i] * DeclickFrames
                      = pre_out[1][c].data[i] * wi
                        + audio_in[1][c].data[i] * (DeclickFrames - wi)

\* C5, the ramp's length: a ramp leaves N frames minus what the cycles since
\* its toggle have consumed, however the frames are split across cycles.
C5_RampLength ==
    Ramped =>
        /\ left_from <= DeclickFrames
        /\ bypass_declick_frames_left = left_from - Min(left_from, proc_info.frames)

\* C5, after the ramp, within the cycle that ends it: the main port passes
\* its input through when bypass is on, and the other channels are silent.
C5_RampTail ==
    (Ramped /\ bypassed) =>
        \A k \in 1..Len(audio_out) : \A c \in 1..Len(audio_out[k]) :
            \A i \in (Min(left_from, proc_info.frames) + 1)..proc_info.frames :
                audio_out[k][c].data[i] =
                    IF main_through /\ k = 1 /\ c \in MainChannels
                    THEN audio_in[1][c].data[i] ELSE 0

\* C5, after the ramp, in the cycles that follow (w has reached 0): pure
\* passthrough of the main port, or pure silence when no main pass-through
\* port exists.
C5_AfterRamp ==
    (SteadyBypass /\ bypass_declick = 0) =>
        \A k \in 1..Len(audio_out) : \A c \in 1..Len(audio_out[k]) :
            \A i \in 1..proc_info.frames :
                audio_out[k][c].data[i] =
                    IF main_through /\ k = 1 /\ c \in MainChannels
                    THEN audio_in[1][c].data[i] ELSE 0

\* C5: after a bypass toggle the processed cycles crossfade the main port over
\* exactly N frames, w moving by 1/N per sample, and after those N frames the
\* main port is pure passthrough (all ports pure silence without a main
\* pass-through port).
C5_BypassRamp == C5_RampMix /\ C5_RampLength /\ C5_RampTail /\ C5_AfterRamp

\* C6: in a processed cycle with the bypass flag set and no ramp left, the
\* main output equals the main input over the cycle's frames channel by
\* channel, with the input's constant flag, and every other output port is
\* all-zero.
C6_BypassPassthrough ==
    (SteadyBypass /\ main_through) =>
        /\ \A c \in MainChannels :
              /\ \A i \in 1..proc_info.frames :
                    audio_out[1][c].data[i] = audio_in[1][c].data[i]
              /\ audio_out[1][c].is_constant = audio_in[1][c].is_constant
        /\ \A k \in 2..Len(audio_out) : \A c \in 1..Len(audio_out[k]) :
              \A i \in 1..proc_info.frames : audio_out[k][c].data[i] = 0

\* A steady-bypass cycle whose main input has no silent hint.
C6_Witness ==
    SteadyBypass /\ main_through /\ ~PortHasSilentHint(audio_in[1])

(***************************************************************************)
(* Properties of the sum tasks                                             *)
(***************************************************************************)
RECURSIVE SeqSum(_)
SeqSum(xs) == IF xs = <<>> THEN 0 ELSE Head(xs) + SeqSum(Tail(xs))

\* AudioSumTask::process has run.
Summed == sum_pc = "done"

\* Input k is flagged constant with a first sample of magnitude at most
\* f32::EPSILON.
ConstantSilent(k) ==
    /\ sum_audio_in[k].is_constant
    /\ sum_audio_in[k].data[1] \in (0 - EPSILON)..EPSILON

\* C7 as stated: after process() each output sample i < frames equals the sum
\* over all inputs of input[i], a constant-flagged input taken as its first
\* sample at every index.
C7_ExactSum ==
    Summed =>
        \A i \in 1..sum_frames :
            sum_audio_out.data[i] =
                SeqSum([k \in 1..Len(sum_audio_in) |->
                           IF sum_audio_in[k].is_constant
                           THEN sum_audio_in[k].data[1]
                           ELSE sum_audio_in[k].data[i]])

\* C7, amended: after process() each output sample i < frames equals the sum
\* over all inputs of input[i], a constant-flagged input taken as its first
\* sample at every index, and an input after the first that is flagged
\* constant with a first sample of magnitude at most f32::EPSILON taken as zero.
C7_SumSkippingSilent ==
    Summed =>
        \A i \in 1..sum_frames :
            sum_audio_out.data[i] =
                SeqSum([k \in 1..Len(sum_audio_in) |->
                           IF k > 1 /\ ConstantSilent(k) THEN 0
                           ELSE IF sum_audio_in[k].is_constant
                           THEN sum_audio_in[k].data[1]
                           ELSE sum_audio_in[k].data[i]])

\* A sum of three inputs: one skipped though its sample is not zero, one added
\* as a scalar, one added sample by sample.
C7_Witness ==
    /\ Summed /\ Len(sum_audio_in) >= 3 /\ sum_frames >= 2
    /\ \E k \in 2..Len(sum_audio_in) :
          ConstantSilent(k) /\ sum_audio_in[k].data[1] # 0
    /\ \E k \in 2..Len(sum_audio_in) :
          sum_audio_in[k].is_constant /\ ~ConstantSilent(k)
    /\ \E k \in 1..Len(sum_audio_in) : ~sum_audio_in[k].is_constant

\* C8 as stated: the output's constant flag is true only if every summed input
\* was skipped as constant-silent; if any input is added sample by sample the
\* output's constant flag is false.
C8_OnlyIfAllSkipped ==
    Summed =>
        /\ sum_audio_out.is_constant =>
              \A k \in 2..Len(sum_audio_in) : ConstantSilent(k)
        /\ (\E k \in 2..Len(sum_audio_in) : ~sum_audio_in[k].is_constant)
              => ~sum_audio_out.is_constant

\* C8, amended: the output's constant flag is true exactly if the constant flag
\* of every input is true, whether the input was skipped as constant-silent or
\* added as a scalar; if any input is added sample by sample the output's
\* constant flag is false.  A true flag is truthful: the output is uniform
\* over the cycle's frames.
C8_ConstantFlag ==
    Summed =>
        /\ sum_audio_out.is_constant
              <=> \A k \in 1..Len(sum_audio_in) : sum_audio_in[k].is_constant
        /\ (\E k \in 2..Len(sum_audio_in) : ~sum_audio_in[k].is_constant)
              => ~sum_audio_out.is_constant
        /\ sum_audio_out.is_constant =>
              \A i \in 1..sum_frames : sum_audio_out.data[i] = sum_audio_out.data[1]

\* The output is flagged constant after an input was added as a scalar.
C8_Witness ==
    /\ Summed /\ sum_audio_out.is_constant
    /\ \E k \in 2..Len(sum_audio_in) :
          sum_audio_in[k].is_constant /\ ~ConstantSilent(k)

\* C9: if every input is constant-silent (constant flag set and first sample
\* zero), then after process() the first `frames` output samples are all zero
\* and the output's constant flag is true.
C9_AllSilent ==
    (Summed /\ \A k \in 1..Len(sum_audio_in) :
                  sum_audio_in[k].is_constant /\ sum_audio_in[k].data[1] = 0)
        => /\ \A i \in 1..sum_frames : sum_audio_out.data[i] = 0
           /\ sum_audio_out.is_constant

\* Several constant-silent inputs were summed over a cycle of several frames.
C9_Witness ==
    /\ Summed /\ Len(sum_audio_in) >= 2 /\ sum_frames >= 2
    /\ \A k \in 1..Len(sum_audio_in) :
          sum_audio_in[k].is_constant /\ sum_audio_in[k].data[1] = 0

\* The input buffers one after the other, in input order.
RECURSIVE Concatenation(_)
Concatenation(bufs) ==
    IF bufs = <<>> THEN <<>> ELSE Head(bufs) \o Concatenation(Tail(bufs))

\* C10: after NoteSumTask::process or AutomationSumTask::process the output
\* buffer is exactly the concatenation of the input buffers in input order,
\* each input's order kept: what the output held before is gone and its
\* length is the sum of the input lengths.
C10_Concatenation ==
    /\ event_pc = "note done" =>
          /\ note_out = Concatenation(note_in)
          /\ Len(note_out) = SeqSum([k \in 1..Len(note_in) |-> Len(note_in[k])])
    /\ event_pc = "automation done" =>
          /\ automation_output = Concatenation(automation_input)
          /\ Len(automation_output)
                = SeqSum([k \in 1..Len(automation_input) |-> Len(automation_input[k])])

\* A note sum of <<A, B>> then <<A>> over a stale output.
C10_Witness ==
    /\ event_pc = "note done"
    /\ Len(note_in) = 2 /\ note_in[1] = <<"A", "B">> /\ note_in[2] = <<"A">>
    /\ note_out = <<"A", "B", "A">>

\* An automation sum of no event at all over a stale output.
C10_WitnessEmpty ==
    /\ event_pc = "automation done"
    /\ Concatenation(automation_input) = <<>>
    /\ automation_output = <<>>

(***************************************************************************)
(* Properties of SharedBuffer and the port views                           *)
(***************************************************************************)
\* C11: for all N >= 0, also N larger than the buffer's length: after
\* clear(N), is_constant() is true, the first N samples are zero, and the
\* samples at index >= N are unchanged.
C11_ClearZeroes ==
    buf_op.name = "clear" =>
        LET buf == buf_port[buf_op.ch]
        IN  /\ buf.is_constant
            /\ Len(buf.data) = Len(buf_op.before.data)
            /\ \A i \in 1..Len(buf.data) :
                  buf.data[i] = IF i <= buf_op.n THEN 0 ELSE buf_op.before.data[i]

\* clear(N) with N past the end of a buffer that held a sample other than zero.
C11_Witness ==
    /\ buf_op.name = "clear"
    /\ buf_op.n > Len(buf_op.before.data)
    /\ \E i \in 1..Len(buf_op.before.data) : buf_op.before.data[i] # 0

\* clear(N) that left a sample other than zero at an index >= N.
C11_WitnessKept ==
    /\ buf_op.name = "clear"
    /\ \E i \in (buf_op.n + 1)..Len(buf_port[buf_op.ch].data) :
          buf_port[buf_op.ch].data[i] # 0

\* C12: after any sequence of new, clear, set_constant and writes through
\* borrow_mut, has_silent_hint() returns true only if is_constant() is true
\* and sample 0 is zero.
C12_SilentHint ==
    (buf_op.name = "has_silent_hint" /\ buf_op.result) =>
        /\ buf_port[buf_op.ch].is_constant
        /\ buf_port[buf_op.ch].data[1] = 0

\* has_silent_hint() returned true for a buffer that is not silent.
C12_Witness ==
    /\ buf_op.name = "has_silent_hint" /\ buf_op.result
    /\ \E i \in 2..Len(buf_port[buf_op.ch].data) : buf_port[buf_op.ch].data[i] # 0

\* C14: AudioPortBuffer::is_silent(n) and AudioPortBufferMut::is_silent(n)
\* return true if and only if every one of the first min(n, length) samples
\* of every channel is zero, whatever the channels' constant flags are.
C14_ExactScan ==
    buf_op.name \in {"is_silent", "is_silent_mut"} =>
        (buf_op.result <=>
            \A c \in 1..Len(buf_port) :
                \A i \in 1..Len(buf_port[c].data) :
                    i <= buf_op.n => buf_port[c].data[i] = 0)

\* is_silent returned false for a port whose every channel has the silent hint.
C14_Witness ==
    /\ buf_op.name = "is_silent" /\ ~buf_op.result
    /\ \A c \in 1..Len(buf_port) :
          buf_port[c].is_constant /\ buf_port[c].data[1] = 0

\* is_silent_mut returned true past the end of channels that are not flagged.
C14_WitnessMut ==
    /\ buf_op.name = "is_silent_mut" /\ buf_op.result
    /\ buf_op.n > MaxFrames
    /\ \A c \in 1..Len(buf_port) : ~buf_port[c].is_constant

\* The constant flag of a buffer is not a false positive over `frames` samples.
Truthful(buf, frames) ==
    buf.is_constant => \A i \in 1..frames : buf.data[i] = buf.data[1]

\* C13: the constant flag has no false positives: after clear(n),
\* AudioSumTask::process and the processor's bypass and declick steps, every
\* buffer whose constant flag is true has all of the first `frames` samples
\* equal to its sample 0.
C13_NoFalsePositive ==
    /\ Returned =>
          \A k \in 1..Len(audio_out) : \A c \in 1..Len(audio_out[k]) :
              Truthful(audio_out[k][c], proc_info.frames)
    /\ Summed => Truthful(sum_audio_out, sum_frames)

\* A steady-bypass cycle of several frames left its outputs flagged constant.
C13_Witness ==
    /\ SteadyBypass /\ proc_info.frames >= 2
    /\ \A k \in 1..Len(audio_out) : \A c \in 1..Len(audio_out[k]) :
          audio_out[k][c].is_constant

\* A sum over several frames left its output flagged constant and not zero.
C13_WitnessSum ==
    /\ Summed /\ sum_frames >= 2 /\ Len(sum_audio_in) >= 2
    /\ sum_audio_out.is_constant /\ sum_audio_out.data[1] # 0

\* A cycle that ran the declick ramp left no output flagged constant.
C13_WitnessDeclick ==
    /\ Ramped
    /\ \A k \in 1..Len(audio_out) : \A c \in 1..Len(audio_out[k]) :
          ~audio_out[k][c].is_constant

\* C20: process() returns true only in a cycle whose active state read at the
\* start is WaitingToDrop; every other cycle that returns (stale schedule,
\* errored, asleep, start failure, quiet stop, normal processing, sleep or
\* failure reported by the plugin) returns false.
C20_TrueOnlyOnDrop ==
    [][Returns =>
          /\ ret' = "true" => state = "WaitingToDrop"
          /\ (state # "WaitingToDrop" /\ ~panicked') => ret' = "false"]_vars

\* A cycle that loaded Active returned false although the drop request had
\* landed before it ended.
C20_Witness ==
    /\ Returned /\ ret = "false"
    /\ state = "Active" /\ active_state = "WaitingToDrop"

\* A cycle in which the plugin reported a failure returned false.
C20_WitnessError ==
    Returned /\ ret = "false" /\ new_status = "Error"

\* The entries of the wheel that are due when on_timer polls it.
DueEntries == {entry \in timer_wheel : entry.due <= now}

\* C15: a call of advance returns every due entry exactly once and reschedules
\* it to its old due instant plus its period, leaving the entries that are not
\* due alone; so every entry of the wheel has fired once per period since its
\* first due instant, none missed and none duplicated.
C15_AdvanceFiresOnce ==
    [][OnTimer =>
        /\ Len(elapsed') = Cardinality(DueEntries)
        /\ \A entry \in DueEntries :
              /\ Cardinality({i \in 1..Len(elapsed') : elapsed'[i] = entry.key}) = 1
              /\ \E r \in wheel_advanced' :
                    /\ r.key = entry.key
                    /\ r.period = entry.period
                    /\ r.due = entry.due + entry.period
        /\ \A entry \in timer_wheel \ DueEntries : entry \in wheel_advanced'
        /\ Cardinality(wheel_advanced') = Cardinality(timer_wheel)
        /\ \A r \in wheel_advanced' : r.due = r.first + r.fired * r.period]_vars

\* C15 witness: on_timer polled a wheel of three entries that were all due,
\* one of them for the second time at least.
C15_Witness ==
    /\ eng_op.name = "on_timer"
    /\ Len(elapsed) = 3
    /\ Cardinality(wheel_advanced) = 3
    /\ \E r \in wheel_advanced : r.fired >= 2

\* C15 witness: on_timer polled the wheel late, more than a period after an
\* entry was due, and the entry is due again at once.
C15_WitnessLate ==
    /\ eng_op.name = "on_timer"
    /\ \E r \in wheel_advanced : r.fired >= 1 /\ r.due <= now

\* C16: deactivate_engine called right after a successful activate_engine
\* leaves the engine deactivated, without a plugin instance, with every
\* process thread joined, the timer wheel reset, no handle of a shared buffer
\* held and nothing left for the collector to free.
C16_CleanDeactivation ==
    [][(DeactivateEngine /\ eng_op = EngOp("activate_engine", "Some")) =>
        /\ activated_state' = "None"
        /\ plugins' = 0
        /\ threads_joined' = threads_spawned'
        /\ timer_wheel' = TimerWheelNew(now)
        /\ buffer_refs' = {}
        /\ garbage' = 0]_vars

\* C16 witness: deactivate_engine returned true and what the dropped
\* ActivatedState held is still waiting for the collector.
C16_Witness ==
    /\ eng_op = EngOp("deactivate_engine", "true")
    /\ activated_state = "None"
    /\ threads_joined = threads_spawned
    /\ buffer_refs = {}
    /\ garbage > 0

\* What activation builds and holds: the audio graph, the process thread and
\* the rest of the engine's fields.
EngineState ==
    <<activated_state, plugins, graphs_built, threads_spawned, threads_joined,
      buffer_refs, garbage, timer_wheel, crash_msg, crashes>>

\* C17: activate_engine called while the engine is activated returns None and
\* changes nothing: no audio graph is built, no process thread is spawned and
\* the activated state is kept.
C17_ActivateTwice ==
    [][(ActivateEngine /\ activated_state = "Some") =>
        /\ eng_op' = EngOp("activate_engine", "None")
        /\ UNCHANGED EngineState]_vars

\* C17 witness: activate_engine returned None on an activated engine whose
\* graph holds a plugin instance.
C17_Witness ==
    /\ eng_op = EngOp("activate_engine", "None")
    /\ activated_state = "Some"
    /\ plugins > 0
    /\ graphs_built = 1
    /\ threads_spawned = 1
    /\ threads_joined = 0

\* C18: deactivate_engine on a deactivated engine returns false and changes
\* nothing; on an activated engine it returns true and leaves the engine
\* deactivated with no crash message pending; modify_graph on a deactivated
\* engine returns None and changes nothing, and only activate_engine makes
\* the engine activated again.
C18_Deactivate ==
    [][/\ (DeactivateEngine /\ activated_state = "None") =>
              /\ eng_op' = EngOp("deactivate_engine", "false")
              /\ UNCHANGED EngineState
       /\ (DeactivateEngine /\ activated_state = "Some") =>
              /\ eng_op' = EngOp("deactivate_engine", "true")
              /\ activated_state' = "None"
              /\ crash_msg' = "None"
       /\ (ModifyGraph /\ activated_state = "None") =>
              /\ eng_op' = EngOp("modify_graph", "None")
              /\ UNCHANGED EngineState
       /\ (activated_state = "None" /\ activated_state' = "Some") =>
              eng_op' = EngOp("activate_engine", "Some")]_vars

\* C18 witness: deactivate_engine returned true on an engine that had a crash
\* message pending, and the message is gone without a report.
C18_Witness ==
    /\ eng_op = EngOp("deactivate_engine", "true")
    /\ activated_state = "None"
    /\ crash_msg = "None"
    /\ crashes = 1
    /\ reported = 0

\* C18 witness: deactivate_engine returned false with a crash message
\* pending, which it left in place.
C18_WitnessFalse ==
    /\ eng_op = EngOp("deactivate_engine", "false")
    /\ crash_msg = "Some"

\* C18 witness: modify_graph returned None after a deactivation.
C18_WitnessModify ==
    /\ eng_op = EngOp("modify_graph", "None")
    /\ graphs_built > 0
    /\ activated_state = "None"

\* A crash message is pending.
Pending == IF crash_msg = "Some" THEN 1 ELSE 0

\* The compile failures that are neither pending nor reported.
Unreported == crashes - reported - Pending

C19_WitnessInTimer ==
    /\ eng_op.name = "on_timer"
    /\ events_out = <<>>
    /\ crash_msg = "Some"
    /\ crashes = 1

\* C19 witness: a failure that no on_timer call reported or will report.
C19_WitnessLost ==
    /\ Unreported > 0
    /\ crash_msg = "None"

\* The PluginHostProcessor is dropped in this step.
Dropped == alive /\ ~alive'

\* C21: over the life of a processor the plugin's calls follow the processing
\* protocol: start_processing is invoked only while the plugin is not
\* processing, and stop_processing and process only while it is (in a call of
\* process(), start_processing comes first if it is invoked at all).
C21_ProcessingProtocol ==
    [][(Returns \/ Dropped) =>
        /\ calls'.start > 0 => ~plugin_processing
        /\ (calls'.start = 0 /\ calls'.stop + calls'.process > 0) => plugin_processing]_vars

\* C21 witness: the processor was dropped on the process thread in the state
\* Started, after the cycle that handled the drop request had stopped the
\* plugin.
C21_Witness ==
    /\ ~alive
    /\ is_process_thread
    /\ IsStarted(processing_state)
    /\ state = "WaitingToDrop"
    /\ calls.stop = 1

\* C22: start_processing, stop_processing, process and param_flush are
\* invoked only in a call of process() and in a drop on the process thread; a
\* drop on another thread invokes none of them, whatever the processing
\* state.
C22_AudioContextOnly ==
    [][/\ (calls' # calls /\ calls' # NoCalls) =>
              (Returns \/ (Dropped /\ is_process_thread'))
       /\ (Dropped /\ ~is_process_thread') =>
              (calls' = NoCalls /\ plugin_processing' = plugin_processing)]_vars

\* C22 witness: a processor in the state Started was dropped on a thread
\* other than the process thread, and the plugin is still processing.
C22_Witness ==
    /\ ~alive
    /\ ~is_process_thread
    /\ IsStarted(processing_state)
    /\ plugin_processing
    /\ calls = NoCalls

\* C23: after NoteSumTask::process or AutomationSumTask::process, with every
\* input buffer within its capacity, the output buffer holds no more events
\* than its capacity: the task did not grow it.
C23_NoGrowth ==
    /\ event_pc = "note done" =>
           ((\A k \in 1..Len(note_in) : Len(note_in[k]) <= Capacity)
               => Len(note_out) <= Capacity)
    /\ event_pc = "automation done" =>
           ((\A k \in 1..Len(automation_input) : Len(automation_input[k]) <= Capacity)
               => Len(automation_output) <= Capacity)

\* C23 witness: a NoteSumTask left more events in its output buffer than the
\* buffer's capacity, from two inputs that are each within theirs.
C23_Witness ==
    /\ event_pc = "note done"
    /\ Len(note_in) = 2
    /\ \A k \in 1..Len(note_in) : Len(note_in[k]) <= Capacity
    /\ Len(note_out) > Capacity

\* The state a cycle that is neither a drop nor a stale-schedule cycle has
\* after the test of the process-requested flag.
StateAfterRequest == AfterProcessRequest(processing_state, process_requested)

\* C24: when process() attempts start_processing (from WaitingForStart, or
\* from Stopped with a note event) and the plugin returns an error, the state
\* becomes Errored, all outputs are cleared, param_flush is invoked exactly
\* when a parameter event arrived, the plugin's process is not invoked, the
\* shared active state is not written, and process() returns false.
C24_StartFailure ==
    [][(Returns /\ start_result' = "Err") =>
        /\ \/ StateAfterRequest = WaitingForStart
           \/ StateAfterRequest = Stopped /\ has_note_in_event'
        /\ processing_state' = Errored
        /\ OutputsZero(audio_out', proc_info'.frames)
        /\ calls' = [start |-> 1, stop |-> 0, process |-> 0,
                     flush |-> IF has_param_in_event' THEN 1 ELSE 0]
        /\ new_status' = "None"
        /\ active_state' = active_state
        /\ ret' = "false"]_vars

\* C24 witness: a sleeping plugin was woken by a note event, failed to start,
\* and the parameter event of the cycle was flushed.
C24_Witness ==
    /\ Returned
    /\ start_result = "Err"
    /\ has_note_in_event
    /\ has_param_in_event
    /\ calls.flush = 1
    /\ processing_state = Errored
    /\ active_state = "Active"

\* C24 witness: the first start of a plugin failed; its active state is not
\* Active.
C24_WitnessFirst ==
    /\ Returned
    /\ start_result = "Err"
    /\ ~has_param_in_event
    /\ calls.flush = 0
    /\ active_state = "Inactive"

\* C25: after the plugin's process returned status s: for Sleep,
\* stop_processing was invoked and the state is Stopped; for Error, all
\* outputs were cleared (before the bypass stage) and the state is Errored;
\* for any other s the state is Started(s) and stop_processing was not invoked.
C25_StatusUpdate ==
    (Returned /\ new_status # "None") =>
        /\ calls.process = 1
        /\ new_status = "Sleep" =>
               (calls.stop = 1 /\ processing_state = Stopped /\ ~plugin_processing)
        /\ new_status = "Error" =>
               /\ OutputsZero(pre_out, proc_info.frames)
               /\ processing_state = Errored
               /\ calls.stop = 0
        /\ new_status \notin {"Sleep", "Error"} =>
               (processing_state = Started(new_status) /\ calls.stop = 0)

\* C25 witness: the plugin's process returned Sleep.
C25_Witness ==
    /\ Returned
    /\ new_status = "Sleep"
    /\ calls.stop = 1
    /\ processing_state = Stopped

\* C25 witness: the plugin's process returned Error and the outputs were
\* cleared; the ramp of the bypass stage then mixed the main input into them.
C25_WitnessError ==
    /\ Returned
    /\ new_status = "Error"
    /\ OutputsZero(pre_out, proc_info.frames)
    /\ ~OutputsZero(audio_out, proc_info.frames)

\* C25 witness: the plugin's process returned a status that keeps it running.
C25_WitnessStarted ==
    /\ Returned
    /\ new_status = "ContinueIfNotQuiet"
    /\ processing_state = Started("ContinueIfNotQuiet")

\* Every sample of every audio input is zero over the first `frames` samples.
InputsZero(in, frames) ==
    \A k \in 1..Len(in) : \A c \in 1..Len(in[k]) :
        \A i \in 1..frames : in[k][c].data[i] = 0

\* The call of process() that returns in this step was neither a drop nor a
\* stale-schedule cycle.
ReachesStateMachine ==
    /\ Returns
    /\ ~DropRequested(state)
    /\ ~StaleSchedule(schedule_version, cycle_version)

\* What the quiet-input fast path says of a call of process() that returns in
\* this step: with no note event and all inputs exactly zero the plugin is
\* stopped, and otherwise its process is invoked.
QuietFastPath ==
    IF ~has_note_in_event' /\ InputsZero(audio_in', proc_info'.frames)
    THEN /\ calls' = [start |-> 0, stop |-> 1, process |-> 0,
                      flush |-> IF has_param_in_event' THEN 1 ELSE 0]
         /\ processing_state' = Stopped
         /\ ~plugin_processing'
         /\ OutputsZero(audio_out', proc_info'.frames)
         /\ ret' = "false"
    ELSE /\ calls'.process = 1
         /\ calls'.start = 0

\* C26 as stated: in every cycle that begins in Started(ContinueIfNotQuiet)
\* the quiet-input fast path decides.
C26_QuietInEveryCycle ==
    [][(Returns /\ processing_state = Started("ContinueIfNotQuiet")) => QuietFastPath]_vars

\* C26: in a cycle that is neither a drop nor a stale-schedule cycle and
\* begins in Started(ContinueIfNotQuiet): if no note event arrived and every
\* audio input is exactly zero over the cycle's frames, whatever the constant
\* flags say, stop_processing is invoked, the state becomes Stopped, outputs
\* are cleared, the plugin's process is not invoked, param_flush is invoked
\* exactly when a parameter event arrived, and process() returns false;
\* otherwise the plugin's process is invoked.
C26_QuietFastPath ==
    [][(ReachesStateMachine /\ processing_state = Started("ContinueIfNotQuiet"))
          => QuietFastPath]_vars

\* C26 witness: the fast path stopped the plugin on an input that is zero but
\* not flagged constant, and flushed the cycle's parameter event.
C26_Witness ==
    /\ Returned
    /\ ret = "false"
    /\ calls = [start |-> 0, stop |-> 1, process |-> 0, flush |-> 1]
    /\ processing_state = Stopped
    /\ ~has_note_in_event
    /\ ~audio_in[1][1].is_constant
    /\ InputsZero(audio_in, proc_info.frames)

\* C26 witness: the inputs' first samples are zero and a later one is not, and
\* the plugin's process was invoked from Started(ContinueIfNotQuiet).
C26_WitnessNotQuiet ==
    /\ Returned
    /\ calls.process = 1
    /\ calls.start = 0
    /\ ~has_note_in_event
    /\ audio_in[1][1].data[1] = 0
    /\ ~InputsZero(audio_in, proc_info.frames)

\* What staying asleep says of a call of process() that returns in this step:
\* no plugin method but param_flush is invoked, and that one exactly when a
\* parameter event arrived; the audio inputs are not read; outputs are
\* cleared, the state stays Stopped and false is returned.
StayedAsleep ==
    /\ calls' = [start |-> 0, stop |-> 0, process |-> 0,
                 flush |-> IF has_param_in_event' THEN 1 ELSE 0]
    /\ start_result' = "None"
    /\ new_status' = "None"
    /\ audio_in' = UnreadInputs
    /\ OutputsZero(audio_out', proc_info'.frames)
    /\ processing_state' = Stopped
    /\ ret' = "false"

\* C27 as stated: every cycle that begins in Stopped with the
\* process-requested flag clear and no note event stays asleep.
C27_AsleepInEveryCycle ==
    [][(Returns /\ processing_state = Stopped /\ ~process_requested
            /\ ~has_note_in_event') => StayedAsleep]_vars

\* C27: in a cycle that is neither a drop nor a stale-schedule cycle, where
\* the state is Stopped, the process-requested flag is not set and no note
\* event arrived, whatever the audio inputs contain, neither start_processing
\* nor process is invoked, outputs are cleared, param_flush is invoked exactly
\* when a parameter event arrived, the state stays Stopped, and process()
\* returns false.
C27_StaysAsleep ==
    [][(ReachesStateMachine /\ processing_state = Stopped /\ ~process_requested
            /\ ~has_note_in_event') => StayedAsleep]_vars

\* C27 witness: a sleeping plugin stayed asleep and was handed the cycle's
\* parameter event.
C27_Witness ==
    /\ Returned
    /\ ret = "false"
    /\ state = "Active"
    /\ processing_state = Stopped
    /\ ~process_requested
    /\ has_param_in_event
    /\ calls = [start |-> 0, stop |-> 0, process |-> 0, flush |-> 1]

C28_WitnessStarted ==
    /\ Returned
    /\ process_requested
    /\ start_result = "None"
    /\ calls.process = 1
    /\ IsStarted(processing_state)

\* C29: in a cycle that begins with the processing state Errored and is
\* neither a drop nor a stale-schedule cycle, all outputs are cleared, no
\* plugin method is invoked, the parameter-automation queue is not drained
\* and process() returns false.
C29_ErroredCycle ==
    [][(ReachesStateMachine /\ processing_state = Errored) =>
        /\ calls' = NoCalls
        /\ ~has_param_in_event'
        /\ OutputsZero(audio_out', proc_info'.frames)
        /\ ret' = "false"]_vars

\* C29 witness: with the process-requested flag set, a processor that had
\* started its plugin in an earlier cycle (it loaded the active state Active)
\* started it again and processed.
C29_Witness ==
    /\ Returned
    /\ process_requested
    /\ start_result = "Ok"
    /\ calls.start = 1
    /\ calls.process = 1
    /\ state = "Active"

\* A processed cycle whose comparison of line 244 finds the shared bypass flag
\* different from the value the processor saw last.
SeesBypassToggle ==
    /\ Returns
    /\ calls'.process = 1
    /\ bypassed # shared_bypassed

\* C30: when a processed cycle sees the shared bypass flag differ from the
\* value the processor saw last, the processor takes the new value, and: with
\* no ramp in progress the remaining count becomes DeclickFrames and w becomes
\* Unit (1.0) when entering bypass and 0 when leaving it; with a ramp in
\* progress the remaining count becomes DeclickFrames minus itself and w is
\* left as it is, so that the ramp goes on in the new direction.
C30_BypassToggle ==
    [][SeesBypassToggle =>
        /\ bypassed' = shared_bypassed
        /\ IF bypass_declick_frames_left = 0
           THEN /\ left_from' = DeclickFrames
                /\ declick_from' = IF shared_bypassed THEN Unit ELSE 0
           ELSE /\ left_from' = DeclickFrames - bypass_declick_frames_left
                /\ declick_from' = bypass_declick]_vars

\* C30 witness: a ramp was reversed in a cycle that kept the direction, and
\* the mix weight has left its range at the top.
C30_Witness ==
    /\ Returned
    /\ calls.process = 1
    /\ bypass_declick > Unit

\* The remaining-ramp counter is within 0..DeclickFrames.
RemainingInRange == bypass_declick_frames_left \in 0..DeclickFrames

\* C31: after any sequence of cycles, bypass toggles and frame counts the mix
\* weight w is within 0..Unit (0.0 to 1.0) and the remaining-ramp counter is
\* within 0..DeclickFrames.
C31_RampRange ==
    /\ bypass_declick \in 0..Unit
    /\ RemainingInRange

\* C31 witness: a processed cycle has left the mix weight below zero.
C31_Witness ==
    /\ Returned
    /\ calls.process = 1
    /\ bypass_declick < 0

\* The processor's expected schedule version is ahead of the cycle's.
Frozen == schedule_version > cycle_version

\* C32: with schedule versions that go up and reach the expected version, a
\* processor that is frozen is eventually not frozen any more and stays so;
\* while it is frozen no step changes its processing state and no cycle starts
\* or processes the plugin, the outputs being all-zero; so the first cycle
\* whose version has caught up begins in the processing state the processor had
\* when it was frozen, and it is not frozen: from WaitingForStart it invokes
\* start_processing.
C32_FrozenUntilCaughtUp ==
    /\ <>[](~Frozen)
    /\ [][Frozen =>
            /\ processing_state' = processing_state
            /\ Returns =>
                  /\ calls'.start = 0
                  /\ calls'.process = 0
                  /\ calls'.flush = 0
                  /\ OutputsZero(audio_out', proc_info'.frames)]_vars
    /\ [][(~Frozen /\ Returns /\ ~DropRequested(state)
              /\ processing_state = WaitingForStart)
            => calls'.start = 1]_vars

\* C32 witness: a processor that expected a later schedule than the first has
\* started its plugin in a cycle of the expected version.
C32_Witness ==
    /\ Returned
    /\ schedule_version > 0
    /\ proc_info.schedule_version = schedule_version
    /\ start_result = "Ok"
    /\ IsStarted(processing_state)

\* The store of line 407 takes place in this step.
StoresDropped ==
    /\ active_state # "DroppedAndReadyToDeactivate"
    /\ active_state' = "DroppedAndReadyToDeactivate"

\* C33: DroppedAndReadyToDeactivate is stored by Drop only, never by
\* process(), and as Drop's last step: when the drop runs on the process
\* thread and the processing state is Started, stop_processing has been
\* invoked by then and the plugin is not processing.  Once the drop is over
\* the active state is DroppedAndReadyToDeactivate, whatever the processing
\* state and the thread were.
C33_TeardownOrdering ==
    [][/\ StoresDropped =>
            /\ pc = "dropping" /\ ~alive
            /\ (is_process_thread /\ IsStarted(processing_state)) =>
                   (calls.stop = 1 /\ ~plugin_processing)
       /\ (~alive' /\ pc' = "idle") =>
            active_state' = "DroppedAndReadyToDeactivate"
       /\ (Returns \/ (pc = "idle" /\ pc' = "running")) => ~StoresDropped]_vars

\* C33 witness: a processor in Started was dropped on the process thread; the
\* plugin was stopped and the active state says so.
C33_Witness ==
    /\ ~alive
    /\ pc = "idle"
    /\ is_process_thread
    /\ IsStarted(processing_state)
    /\ calls.stop = 1
    /\ ~plugin_processing
    /\ active_state = "DroppedAndReadyToDeactivate"

\* C33 witness: a processor in Started was dropped on another thread.
C33_WitnessOtherThread ==
    /\ ~alive
    /\ pc = "idle"
    /\ ~is_process_thread
    /\ IsStarted(processing_state)
    /\ active_state = "DroppedAndReadyToDeactivate"

\* C34: in one call of process(), start_processing, the plugin's process,
\* stop_processing and param_flush are each invoked at most once, and
\* param_flush is not invoked in a cycle in which the plugin's process is.
C34_NothingRetried ==
    Returned =>
        /\ \A m \in DOMAIN calls : calls[m] \in {0, 1}
        /\ ~(calls.flush >= 1 /\ calls.process >= 1)

\* C34 witness: one cycle started the plugin, processed, and stopped it on the
\* status Sleep, each once.
C34_Witness ==
    /\ Returned
    /\ calls = [start |-> 1, stop |-> 1, process |-> 1, flush |-> 0]
    /\ new_status = "Sleep"

\* C34 witness: a quiet stop flushed the parameter events, each call once.
C34_WitnessFlush ==
    /\ Returned
    /\ calls = [start |-> 0, stop |-> 1, process |-> 0, flush |-> 1]

\* C35: the output event and note buffers are empty from the start of every
\* call of process() until the plugin's process is invoked: they are empty
\* while the call runs and after every cycle that ends without invoking the
\* plugin's process (drop, stale schedule, errored, asleep, quiet stop, start
\* failure).
C35_EventOutputsCleared ==
    /\ pc = "running" => event_buffers_out = <<>>
    /\ (Returned /\ calls.process = 0) => event_buffers_out = <<>>

\* C35 witness: a drop cycle has ended with the output event buffers empty;
\* they held events when it was called.
C35_Witness ==
    /\ Returned
    /\ ret = "true"
    /\ calls.process = 0
    /\ event_buffers_out = <<>>

\* C35 witness: a processed cycle left events in the output buffers, which the
\* next call finds.
C35_WitnessStale ==
    /\ Returned
    /\ calls.process = 1
    /\ event_buffers_out # <<>>

\* C36: no cycle aborts on a borrow conflict: no call of process() ends in
\* the panic of a refused borrow, in steady bypass with a main pass-through
\* port whose input has no silent hint as in every other state.
C36_NoBorrowConflict ==
    /\ ~panicked
    /\ ret # "panic"

\* C36 witness: a cycle in steady bypass, with a main pass-through port whose
\* input has no silent hint, aborted in the copy loop of bypass().
C36_Witness ==
    /\ panicked
    /\ ret = "panic"
    /\ bypassed
    /\ bypass_declick_frames_left = 0
    /\ main_through
    /\ ~PortHasSilentHint(audio_in[1])

\* The mix weight a ramp with `left` frames to go has: remaining/N when the
\* processor is bypassed, 1 - remaining/N when it is not.
RampWeight(byp, left) == IF byp THEN left ELSE Unit - left

\* C37: whenever a ramp is in progress, w is remaining/N if the last-seen
\* bypass flag is set and 1 - remaining/N otherwise; hence a cycle that ends a
\* ramp leaves w at exactly 0 when bypassed and exactly 1 when not.
C37_RampConsistency ==
    /\ bypass_declick_frames_left > 0 =>
           bypass_declick = RampWeight(bypassed, bypass_declick_frames_left)
    /\ (Ramped /\ bypass_declick_frames_left = 0) =>
           bypass_declick = RampWeight(bypassed, 0)

\* C37 witness: a ramp has ended in a bypassed processor with the mix weight
\* at 1/N, not at 0.
C37_Witness ==
    /\ Ramped
    /\ bypass_declick_frames_left = 0
    /\ bypassed
    /\ bypass_declick = 1

\* C38: a cycle of process() that returns before the status update (drop,
\* stale schedule, errored, asleep, quiet stop, start failure: the plugin's
\* process is not invoked) leaves the last-seen bypass flag, the mix weight and
\* the remaining-ramp counter as they were and does not enter the bypass
\* stage; its outputs are all-zero, also when the shared bypass flag is set
\* and a main pass-through port exists.
C38_NoBypassBeforeStatus ==
    [][(Returns /\ new_status' = "None") =>
        /\ calls'.process = 0
        /\ bypassed' = bypassed
        /\ bypass_declick' = bypass_declick
        /\ bypass_declick_frames_left' = bypass_declick_frames_left
        /\ pre_out' = <<>>
        /\ OutputsZero(audio_out', proc_info'.frames)]_vars

\* C38 witness: a cycle ended before the status update while the shared
\* bypass flag was set, the processor had not seen it yet and a main
\* pass-through port existed; a ramp was in progress and has not moved.
C38_Witness ==
    /\ Returned
    /\ new_status = "None"
    /\ ret = "false"
    /\ shared_bypassed
    /\ ~bypassed
    /\ main_through
    /\ bypass_declick_frames_left > 0
    /\ OutputsZero(audio_out, proc_info.frames)

\* C39: on_timer returns an EngineDeactivated event only while the engine is
\* not activated: the engine is deactivated when such a call begins and when
\* it ends, so a crash message left by a failed compilation is not reported
\* once the engine has been activated again.
C39_ReportedOnlyDeactivated ==
    [][(OnTimer /\ events_out' # <<>>) =>
        /\ activated_state = "None"
        /\ activated_state' = "None"]_vars

\* C39 witness: on_timer returned the EngineCrashed event of an earlier
\* failure to an engine that has been activated again and is running.
C39_Witness ==
    /\ eng_op.name = "on_timer"
    /\ events_out = <<"EngineCrashed">>
    /\ activated_state = "Some"
    /\ threads_spawned > threads_joined
    /\ crashes = 1
====
